---- MODULE Spec2Model ----
(***************************************************************************)
(* State-machine model of the race engine of the shifters repository:      *)
(* the orchestrator (simcore/simulator.py), the vehicles                   *)
(* (agents/base_agent.py), the track (environment/track.py), the safety    *)
(* car and DNF manager (environment/safety_car.py) and the leaderboard     *)
(* (leaderboard/leaderboard.py).                                           *)
(*                                                                         *)
(* Units.  Time is counted in ticks (one tick = time_step seconds),        *)
(* distance in whole track units and speed in track units per tick, so     *)
(* that speed * time_step is an integer movement.                          *)
(***************************************************************************)
EXTENDS Integers, Sequences, FiniteSets, TLC

(***************************************************************************)
(* Bounds of the model.                                                    *)
(***************************************************************************)
\* track.length, in track units
TrackLength == 3
\* track.num_laps
NumLaps == 2
\* largest max_speed of a vehicle and largest movement of one tick, in track
\* units per tick
MaxSpeed == 2
\* acceleration * time_step of a vehicle, in track units per tick
Acceleration == 1
\* number of working ticks explored
MaxSteps == 6

(***************************************************************************)
(* Program constants.                                                      *)
(***************************************************************************)
\* SafetyCar.__init__: safety_car_duration
SafetyCarDuration == 6
\* RacingVehicle.check_slipstream: slipstream_distance
SlipstreamDistance == 50
\* RacingVehicle.__init__: last_dnf_check_lap
InitialDnfCheckLap == -1

\* the length of one track unit in metres: positions are counted in track units,
\* slipstream_distance is given in metres
MetresPerUnit == 25

\* Python's None, for Optional arguments and fields: a value no lap, position,
\* time or finish position takes
None == 0 - 9

\* the unique_ids of the vehicles handed to add_agent, in the order they are added
VehicleIds == {1, 2}

\* the vehicles add_agent is given: a MobilityAgent of any max_speed, or a
\* RacingVehicle whose max_speed is one track unit per tick
AgentSpecs ==
    {[kind |-> "MobilityAgent", max_speed |-> m] : m \in 1..MaxSpeed} \cup
    {[kind |-> "RacingVehicle", max_speed |-> 1]}

VARIABLES
    leaderboard,     \* Leaderboard: agents (dict, in insertion order) and _sorted_rankings
    agents_list,     \* MobilitySimulation.agents_list: ids in add_agent order
    agent,           \* the vehicles: id -> fields of MobilityAgent / RacingVehicle
    finished_agents, \* MobilitySimulation.finished_agents
    current_step,    \* MobilitySimulation.current_step (simulation_time in ticks)
    current_lap,     \* MobilitySimulation.current_lap
    running,         \* MobilitySimulation.running
    race_started,    \* MobilitySimulation.race_started
    race_finished,   \* MobilitySimulation.race_finished
    safety_car,      \* SafetyCar: active, laps_remaining, total_deployments
    dnf_history,     \* DNFManager.dnf_history
    enable_live_updates, \* MobilitySimulation.enable_live_updates
    event_log,       \* every event handed to trigger_event, stamped with its tick
    dnf_checks,      \* every call of DNFManager.check_dnf: <<agent id, lap>>
    sc_deployed_at,  \* current_lap at the last SafetyCar.deploy, None before the first
    pit,             \* a PitStopStrategy: plan, completed stops and pit-lane state
    pit_call,        \* the last call made on the PitStopStrategy, with what it returned
    tire,            \* a TireSet in use: compound, laps_used, temperature, wear, damage
    track,           \* a Track being set up and raced on by one vehicle
    calc             \* the last call of a function of the race physics, with its result

\* the state of the race, of the pit strategy and of the physics components
race_vars == <<leaderboard, agents_list, agent, finished_agents, current_step,
               current_lap, running, race_started, race_finished, safety_car,
               dnf_history, enable_live_updates, event_log, dnf_checks,
               sc_deployed_at>>
physics_vars == <<tire, track, calc>>

vars == <<leaderboard, agents_list, agent, finished_agents, current_step,
          current_lap, running, race_started, race_finished, safety_car,
          dnf_history, enable_live_updates, event_log, dnf_checks,
                   sc_deployed_at, pit, pit_call, tire, track, calc>>

(***************************************************************************)
(* Helpers on sequences.                                                   *)
(***************************************************************************)
Range(s) == {s[i] : i \in 1..Len(s)}

RECURSIVE SumSeq(_)
SumSeq(s) == IF s = <<>> THEN 0 ELSE Head(s) + SumSeq(Tail(s))

Max(a, b) == IF a >= b THEN a ELSE b
Min(a, b) == IF a <= b THEN a ELSE b

\* F applied to the value of e, with e evaluated once
Bind(F(_), e) == CHOOSE r \in {F(x) : x \in {e}} : TRUE

(***************************************************************************)
(* Leaderboard (leaderboard/leaderboard.py).                               *)
(* A leaderboard value lb has                                              *)
(*   lb.ids     the keys of self.agents in insertion order,                *)
(*   lb.agents  id -> AgentRanking,                                        *)
(*   lb.sorted  self._sorted_rankings, as ids.                             *)
(***************************************************************************)
\* AgentRanking(agent_id, name): the dataclass defaults
NewRanking == [rank |-> 0, lap |-> 0, position_on_track |-> 0, finished |-> FALSE,
               finish_position |-> None, total_time |-> 0]

\* Leaderboard.__init__
EmptyLeaderboard == [ids |-> <<>>, agents |-> <<>>, sorted |-> <<>>]

\* get_sort_key without the negation of the lap: unfinished entries would sort
\* by lap ascending
get_sort_key_lap_ascending(r) ==
    IF r.finished /\ r.finish_position # None
    THEN <<0, r.finish_position, 0>>
    ELSE <<1, r.lap, 0 - r.position_on_track>>

\* AgentRanking.get_sort_key
get_sort_key(r) ==
    IF r.finished /\ r.finish_position # None
    THEN <<0, r.finish_position, 0>>
    ELSE <<1, 0 - r.lap, 0 - r.position_on_track>>

\* Python's tuple comparison k1 < k2 on the 3-tuples of get_sort_key
KeyLess(k1, k2) ==
    \/ k1[1] < k2[1]
    \/ k1[1] = k2[1] /\ k1[2] < k2[2]
    \/ k1[1] = k2[1] /\ k1[2] = k2[2] /\ k1[3] < k2[3]

\* insert id x after every element of the sorted sequence s whose key is not greater
RECURSIVE InsertByKey(_, _, _)
InsertByKey(agents, s, x) ==
    IF s = <<>> THEN <<x>>
    ELSE IF KeyLess(get_sort_key(agents[x]), get_sort_key(agents[Head(s)]))
         THEN <<x>> \o s
         ELSE <<Head(s)>> \o InsertByKey(agents, Tail(s), x)

\* sorted(self.agents.values(), key=get_sort_key): Python's sort is stable, so
\* equal keys keep the insertion order of the dict
RECURSIVE SortedByKey(_, _)
SortedByKey(agents, ids) ==
    IF ids = <<>> THEN <<>>
    ELSE InsertByKey(agents, SortedByKey(agents, SubSeq(ids, 1, Len(ids) - 1)),
                     ids[Len(ids)])

\* the index of x in the sequence s (x is in s)
IndexOf(s, x) == CHOOSE i \in 1..Len(s) : s[i] = x

\* assign_ranks numbering from 0, as enumerate does without start=1
assign_ranks_from_zero(lb, srt) ==
    [lb EXCEPT !.sorted = srt,
               !.agents = [id \in DOMAIN lb.agents |->
                             [lb.agents[id] EXCEPT !.rank = IndexOf(srt, id) - 1]]]

\* the second half of Leaderboard._update_rankings: rank = index in the sorted list
assign_ranks(lb, srt) ==
    [lb EXCEPT !.sorted = srt,
               !.agents = [id \in DOMAIN lb.agents |->
                             [lb.agents[id] EXCEPT !.rank = IndexOf(srt, id)]]]

\* Leaderboard._update_rankings: sort, then assign the ranks
update_rankings(lb) ==
    Bind(LAMBDA srt : assign_ranks(lb, srt), SortedByKey(lb.agents, lb.ids))

\* Leaderboard.register_agent
register_agent(lb, id) ==
    IF id \in DOMAIN lb.agents THEN lb
    ELSE Bind(LAMBDA added : update_rankings(added),
              [ids    |-> Append(lb.ids, id),
               agents |-> [x \in DOMAIN lb.agents \cup {id} |->
                             IF x = id THEN NewRanking ELSE lb.agents[x]],
               sorted |-> Append(lb.sorted, id)])

\* handle_finish without the test "not ranking.finished": every update with
\* finished=True would count the finished entries again
handle_finish_every_update(lb, id, r, finished) ==
    IF finished
    THEN LET marked == [lb.agents EXCEPT ![id] = [r EXCEPT !.finished = TRUE]]
             finished_count == Cardinality({x \in DOMAIN marked : marked[x].finished})
         IN  [r EXCEPT !.finished = TRUE, !.finish_position = finished_count]
    ELSE r

\* the finish branch of Leaderboard.update_agent (lines 102-107): the entry r is
\* marked finished first, then the finished entries are counted, r among them
handle_finish(lb, id, r, finished) ==
    IF finished /\ ~r.finished
    THEN LET marked == [lb.agents EXCEPT ![id] = [r EXCEPT !.finished = TRUE]]
             finished_count == Cardinality({x \in DOMAIN marked : marked[x].finished})
         IN  [r EXCEPT !.finished = TRUE, !.finish_position = finished_count]
    ELSE r

\* Leaderboard.update_agent; an unregistered id raises ValueError and changes nothing
update_agent(lb, id, lap, position_on_track, finished, time) ==
    IF id \notin DOMAIN lb.agents THEN lb
    ELSE LET r0 == lb.agents[id]
             r1 == [r0 EXCEPT
                      !.lap = IF lap # None THEN lap ELSE @,
                      !.position_on_track =
                          IF position_on_track # None THEN position_on_track ELSE @,
                      !.total_time = IF time # None THEN time ELSE @]
             r2 == handle_finish(lb, id, r1, finished)
         IN  Bind(LAMBDA updated : update_rankings(updated),
                  [lb EXCEPT !.agents[id] = r2])

(***************************************************************************)
(* Track (environment/track.py), a circuit of TrackLength units.           *)
(***************************************************************************)
\* the track's segments: a corner in the unit after the line, straights elsewhere
CornerPositions == {0}

\* is_lap_complete with > for >=: a vehicle exactly on the line is not seen
is_lap_complete_past_line(position) == position > TrackLength

\* Track.is_lap_complete, track_type == "circuit"
is_lap_complete(position) == position >= TrackLength

\* Track.normalize_position, track_type == "circuit"
normalize_position(position) ==
    IF position >= TrackLength THEN position % TrackLength ELSE position

\* is_race_complete one lap early
is_race_complete_one_lap_early(lap) == lap >= NumLaps - 1

\* Track.is_race_complete
is_race_complete(lap) == lap >= NumLaps

\* Track.get_curvature_at_position: > 0 in a corner segment, 0.0 on a straight
\* and on a track without segments
get_curvature_at_position(position) == IF position \in CornerPositions THEN 1 ELSE 0

(***************************************************************************)
(* Vehicles (agents/base_agent.py).                                        *)
(***************************************************************************)
\* MobilityAgent.__init__ and RacingVehicle.__init__; unwrapped is the position
\* _move reached in the last tick before any wrap (old_position + movement)
NewAgent(kind, max_speed) ==
    [kind |-> kind, max_speed |-> max_speed, position |-> 0, speed |-> 0, lap |-> 0, finished |-> FALSE,
     lap_times |-> <<>>, total_time |-> 0, current_curvature |-> 0,
     drs_active |-> FALSE, in_slipstream |-> FALSE,
     last_dnf_check_lap |-> InitialDnfCheckLap, just_crossed_line |-> FALSE,
     unwrapped |-> 0]

\* complete_lap that counts the lap twice
complete_lap_counted_twice(a, lap_time) ==
    [a EXCEPT !.lap = @ + 2, !.lap_times = Append(@, lap_time), !.position = 0]

\* MobilityAgent.complete_lap
complete_lap(a, lap_time) ==
    [a EXCEPT !.lap = @ + 1, !.lap_times = Append(@, lap_time), !.position = 0]

\* MobilityAgent.finish_race
agent_finish_race(a) == [a EXCEPT !.finished = TRUE]

\* RacingVehicle.check_slipstream: some other racing vehicle on the same lap is
\* ahead by more than 0 and less than slipstream_distance
check_slipstream(agents, ids, id) ==
    \E o \in Range(ids) :
        /\ agents[o].kind = "RacingVehicle"
        /\ o # id
        /\ 0 < (agents[o].position - agents[id].position) * MetresPerUnit
        /\ (agents[o].position - agents[id].position) * MetresPerUnit
               < SlipstreamDistance
        /\ agents[o].lap = agents[id].lap

\* MobilitySimulation.step, lines 117-130: slipstream and DRS of the racing
\* vehicles, read from the positions before any vehicle moves; activate_drs sets
\* the flag only when current_curvature == 0
slipstream_and_drs(agents, ids, id) ==
    LET a == agents[id]
    IN  IF a.kind = "RacingVehicle" /\ ~a.finished
        THEN [a EXCEPT
                !.in_slipstream = check_slipstream(agents, ids, id),
                !.drs_active = (a.current_curvature = 0 /\ 10 * a.speed > 7 * a.max_speed)]
        ELSE a

\* MobilityAgent._calculate_target_speed: the recommended speed of the track,
\* which is the vehicle's max_speed on a straight and in a corner wide enough
target_speed(a) == a.max_speed

\* MobilityAgent._accelerate
accelerate(a) ==
    LET target == target_speed(a)
    IN  IF a.speed < target THEN Min(a.speed + Acceleration, target)
        ELSE IF a.speed > target THEN Max(a.speed - Acceleration, target)
        ELSE a.speed

\* the outcomes [speed, movement] of one vehicle's dynamics in one tick.
\* MobilityAgent._move: movement = speed * time_step after _accelerate.
\* RacingVehicle._move: the speed follows drag, differential and braking, and the
\* movement is max(0, base + variation + penalty) with a Gaussian variation
\* scaled by the speed, so it is zero when the speed is zero and can be any
\* distance up to MaxSpeed otherwise
Dynamics(a) ==
    IF a.finished THEN {[speed |-> a.speed, movement |-> 0]}
    ELSE IF a.kind = "MobilityAgent"
    THEN {[speed |-> accelerate(a), movement |-> accelerate(a)]}
    ELSE {[speed |-> s, movement |-> m] :
            s \in 0..a.max_speed, m \in 0..MaxSpeed} \ 
         {[speed |-> 0, movement |-> m] : m \in 1..MaxSpeed}

\* RacingVehicle._move, lines 656-666: the vehicle wraps its own position
racing_move(a, d) ==
    LET reached == a.position + d.movement
    IN  [a EXCEPT !.speed = d.speed,
                  !.unwrapped = reached,
                  !.position = IF reached >= TrackLength THEN reached % TrackLength
                               ELSE reached,
                  !.just_crossed_line = (reached >= TrackLength)]

\* MobilityAgent._move
base_move(a, d) ==
    [a EXCEPT !.speed = d.speed,
              !.unwrapped = a.position + d.movement,
              !.position = a.position + d.movement]

\* MobilityAgent.step: nothing for a finished vehicle; else track geometry, target
\* speed, acceleration and movement
agent_step(a, d) ==
    IF a.finished THEN a
    ELSE LET g == [a EXCEPT !.current_curvature = get_curvature_at_position(a.position)]
         IN  IF a.kind = "RacingVehicle" THEN racing_move(g, d) ELSE base_move(g, d)

(***************************************************************************)
(* Safety car and DNF manager (environment/safety_car.py).                 *)
(***************************************************************************)
\* SafetyCar.__init__
NewSafetyCar == [active |-> FALSE, laps_remaining |-> 0, total_deployments |-> 0]

\* SafetyCar.deploy
sc_deploy(sc) ==
    [sc EXCEPT !.active = TRUE, !.laps_remaining = SafetyCarDuration,
               !.total_deployments = @ + 1]

\* SafetyCar.check_deployment that does not look whether the safety car is out
sc_check_deployment_while_active(sc, dnf_occurred, draw) ==
    IF dnf_occurred /\ draw THEN sc_deploy(sc) ELSE sc

\* SafetyCar.check_deployment; draw is random.random() < safety_car_probability
sc_check_deployment(sc, dnf_occurred, draw) ==
    IF sc.active THEN sc
    ELSE IF dnf_occurred /\ draw THEN sc_deploy(sc)
    ELSE sc

\* SafetyCar.withdraw
sc_withdraw(sc) == [sc EXCEPT !.active = FALSE, !.laps_remaining = 0]

\* SafetyCar.update
sc_update(sc) ==
    IF sc.active
    THEN LET dec == [sc EXCEPT !.laps_remaining = @ - 1]
         IN  IF dec.laps_remaining <= 0 THEN sc_withdraw(dec) ELSE dec
    ELSE sc

\* DNFManager.check_dnf: "" when no draw is below its threshold, and no draw at
\* all on lap 0 or on a track of 0 laps; draw is the outcome of the two draws
DnfOutcomes == {"", "crash", "mechanical"}
check_dnf(lap, total_laps, draw) ==
    IF lap = 0 \/ total_laps = 0 THEN "" ELSE draw

(***************************************************************************)
(* The orchestrator (simcore/simulator.py).                                *)
(***************************************************************************)
Event(type, id, lap, lap_time, position, tick) ==
    [type |-> type, agent |-> id, lap |-> lap, lap_time |-> lap_time,
     position |-> position, tick |-> tick]

\* MobilitySimulation._check_agent_progress on the loop state st at time now
check_agent_progress(st, id, now) ==
    LET a == st.agent[id]
    IN  IF is_lap_complete(a.position)
        THEN LET lap_time == IF a.lap_times # <<>> THEN now - SumSeq(a.lap_times)
                             ELSE now
                 c  == complete_lap(a, lap_time)
                 n  == [c EXCEPT !.position = normalize_position(c.position)]
                 e1 == Append(st.event_log,
                              Event("lap_complete", id, n.lap, lap_time, None, now))
             IN  IF is_race_complete(n.lap)
                 THEN LET fa == Append(st.finished_agents, id)
                      IN  [st EXCEPT
                             !.agent[id] = agent_finish_race(n),
                             !.finished_agents = fa,
                             !.event_log = Append(e1,
                                 Event("agent_finish", id, None, None, Len(fa), now))]
                 ELSE [st EXCEPT !.agent[id] = n, !.event_log = e1]
        ELSE st

\* the guard of the DNF check in MobilitySimulation.step, lines 152-154
dnf_check_due(a) ==
    /\ a.kind = "RacingVehicle"
    /\ a.lap > 0
    /\ a.last_dnf_check_lap < a.lap

\* the body of the loop without the test of agent.finished: it stamps the time
\* of every agent and checks its progress
process_agent_also_finished(st, id, now, draw) ==
    LET t  == [st.agent[id] EXCEPT !.total_time = now]
        s1 == [st EXCEPT !.agent[id] = t]
    IN  check_agent_progress(s1, id, now)

\* the body of the loop of MobilitySimulation.step, lines 148-169, for one agent
process_agent(st, id, now, draw) ==
    LET a == st.agent[id]
    IN  IF a.finished THEN st
        ELSE LET t  == [a EXCEPT !.total_time = now]
                 s1 == [st EXCEPT !.agent[id] = t]
             IN  IF dnf_check_due(t)
                 THEN LET k      == [t EXCEPT !.last_dnf_check_lap = t.lap]
                          reason == check_dnf(k.lap, NumLaps, draw)
                          s2     == [s1 EXCEPT
                                       !.agent[id] = k,
                                       !.dnf_checks = Append(@, <<id, k.lap>>)]
                      IN  IF reason # ""
                          THEN [s2 EXCEPT
                                  !.agent[id] = agent_finish_race(k),
                                  !.finished_agents = Append(@, id),
                                  !.dnf_history = Append(@,
                                      [driver_id |-> id, lap |-> k.lap,
                                       reason |-> reason]),
                                  !.dnf_occurred = TRUE]
                          ELSE check_agent_progress(s2, id, now)
                 ELSE check_agent_progress(s1, id, now)

\* the loop of MobilitySimulation.step, lines 147-169, over agents_list in order
RECURSIVE process_agents(_, _, _, _)
process_agents(st, ids, now, draws) ==
    IF ids = <<>> THEN st
    ELSE Bind(LAMBDA next : process_agents(next, Tail(ids), now, draws),
              process_agent(st, Head(ids), now, draws[Head(ids)]))

\* _update_leaderboard going through agents_list from its last agent to its first
RECURSIVE update_leaderboard_last_first(_, _, _)
update_leaderboard_last_first(lb, agents, ids) ==
    IF ids = <<>> THEN lb
    ELSE LET last == ids[Len(ids)]
             a == agents[last]
         IN  Bind(LAMBDA next : update_leaderboard_last_first(
                                    next, agents, SubSeq(ids, 1, Len(ids) - 1)),
                  update_agent(lb, last, a.lap, a.position, a.finished,
                               a.total_time))

\* MobilitySimulation._update_leaderboard: one update_agent per agent, in order
RECURSIVE update_leaderboard(_, _, _)
update_leaderboard(lb, agents, ids) ==
    IF ids = <<>> THEN lb
    ELSE LET a == agents[Head(ids)]
         IN  Bind(LAMBDA next : update_leaderboard(next, agents, Tail(ids)),
                  update_agent(lb, Head(ids), a.lap, a.position, a.finished,
                               a.total_time))

\* all_agents_finished satisfied by the first finisher
all_agents_finished_by_first(fin, ids) == Len(fin) >= 1

\* the test of MobilitySimulation.step, line 185
all_agents_finished(fin, ids) == Len(fin) = Len(ids)

\* the largest lap of the unfinished agents, 0 when every agent is finished
leading_lap(agents, ids) ==
    LET laps == {agents[i].lap : i \in {j \in Range(ids) : ~agents[j].finished}}
    IN  IF laps = {} THEN 0 ELSE CHOOSE l \in laps : \A m \in laps : m <= l

\* the inputs one agent takes in one tick: the outcome of its dynamics and, when
\* its DNF check is due, of the DNF draws
AgentInputs(a) ==
    {[speed |-> d.speed, movement |-> d.movement, dnf |-> r] :
        d \in Dynamics(a),
        r \in IF dnf_check_due(a) THEN DnfOutcomes ELSE {""}}

\* the inputs of one tick, one per agent of agents_list[1..n]
RECURSIVE TickInputs(_)
TickInputs(n) ==
    IF n = 0 THEN {<<>>}
    ELSE {Append(p, c) : p \in TickInputs(n - 1),
                         c \in AgentInputs(agent[agents_list[n]])}

\* MobilitySimulation.__init__
RaceInit ==
    /\ leaderboard = EmptyLeaderboard
    /\ agents_list = <<>>
    /\ agent = <<>>
    /\ finished_agents = <<>>
    /\ current_step = 0
    /\ current_lap = 0
    /\ running = TRUE
    /\ race_started = FALSE
    /\ race_finished = FALSE
    /\ safety_car = NewSafetyCar
    /\ dnf_history = <<>>
    /\ enable_live_updates = TRUE
    /\ event_log = <<>>
    /\ dnf_checks = <<>>
    /\ sc_deployed_at = None

\* no PitStopStrategy has been constructed, and no call made on one
NoPit == [constructed |-> FALSE]
NoCall == [op |-> "none"]
\* no TireSet is in use and no Track is being set up
NoTire == [fitted |-> FALSE]
NoTrack == [constructed |-> FALSE]

\* a race: the vehicles of this code base own no PitStopStrategy
Init ==
    /\ RaceInit
    /\ pit = NoPit
    /\ pit_call = NoCall
    /\ tire = NoTire
    /\ track = NoTrack
    /\ calc = NoCall

\* MobilitySimulation.add_agent, called while the race is set up
AddAgent ==
    /\ current_step = 0
    /\ \E id \in VehicleIds \ Range(agents_list), spec \in AgentSpecs :
         /\ \A other \in VehicleIds \ Range(agents_list) : id <= other
         /\ agents_list' = Append(agents_list, id)
         /\ agent' = [x \in DOMAIN agent \cup {id} |->
                        IF x = id THEN NewAgent(spec.kind, spec.max_speed)
                        ELSE agent[x]]
         /\ leaderboard' = register_agent(leaderboard, id)
    /\ UNCHANGED <<finished_agents, current_step, current_lap, running,
                   race_started, race_finished, safety_car, dnf_history,
                   enable_live_updates, event_log, dnf_checks,
                   sc_deployed_at, pit, pit_call, physics_vars>>

\* MobilitySimulation.start_race
StartRace ==
    /\ race_started' = TRUE
    /\ running' = TRUE
    /\ UNCHANGED <<leaderboard, agents_list, agent, finished_agents, current_step,
                   current_lap, race_finished, safety_car, dnf_history,
                   enable_live_updates, event_log, dnf_checks,
                   sc_deployed_at, pit, pit_call, physics_vars>>

\* a step that counts the tick although self.running is False
StepIdleCountingTick ==
    /\ ~running
    /\ current_step < MaxSteps
    /\ current_step' = current_step + 1
    /\ UNCHANGED <<leaderboard, agents_list, agent, finished_agents,
                   current_lap, running, race_started, race_finished, safety_car,
                   dnf_history, enable_live_updates, event_log, dnf_checks,
                   sc_deployed_at, pit, pit_call, physics_vars>>

\* MobilitySimulation.step when self.running is False: it returns at once
StepIdle ==
    /\ ~running
    /\ UNCHANGED <<leaderboard, agents_list, agent, finished_agents, current_step,
                   current_lap, running, race_started, race_finished, safety_car,
                   dnf_history, enable_live_updates, event_log, dnf_checks,
                   sc_deployed_at, pit, pit_call, physics_vars>>

\* one vehicle after the other sets its flags and steps, so that a vehicle reads
\* the new positions of the vehicles before it in agents_list
RECURSIVE flags_and_step_in_turn(_, _, _)
flags_and_step_in_turn(agents, ids, inp) ==
    IF ids = <<>> THEN agents
    ELSE flags_and_step_in_turn(
             [agents EXCEPT ![Head(ids)] =
                 agent_step(slipstream_and_drs(agents, agents_list, Head(ids)),
                            [speed |-> inp[Head(ids)].speed,
                             movement |-> inp[Head(ids)].movement])],
             Tail(ids), inp)

\* moved_agents with the flags of a vehicle computed just before it steps
moved_agents_in_turn(inp) == flags_and_step_in_turn(agent, agents_list, inp)

\* MobilitySimulation.step, lines 117-133: the slipstream and DRS flags of every
\* racing vehicle are set first, then every agent steps with its inputs inp
moved_agents(inp) ==
    [id \in DOMAIN agent |->
        agent_step(slipstream_and_drs(agent, agents_list, id),
                   [speed |-> inp[id].speed, movement |-> inp[id].movement])]

\* MobilitySimulation.step when self.running is True; now is the number of the
\* tick, which is also its time
StepAt(now) ==
    /\ running
    /\ \E inp \in TickInputs(Len(agents_list)) :
       \E moved \in {moved_agents(inp)} :
       \* lines 147-169
       \E st \in {process_agents(
                     [agent |-> moved, finished_agents |-> finished_agents,
                      event_log |-> event_log, dnf_history |-> dnf_history,
                      dnf_checks |-> dnf_checks, dnf_occurred |-> FALSE],
                     agents_list, now,
                     [id \in DOMAIN agent |-> inp[id].dnf])} :
       \* the draw of check_deployment is taken when a DNF occurred with no safety car out
       \E sc_draw \in IF st.dnf_occurred /\ ~safety_car.active THEN BOOLEAN ELSE {FALSE} :
         /\ current_step' = now
         \* line 145
         /\ current_lap' = IF agents_list # <<>> THEN leading_lap(moved, agents_list)
                           ELSE current_lap
         /\ agent' = st.agent
         /\ finished_agents' = st.finished_agents
         /\ dnf_history' = st.dnf_history
         /\ dnf_checks' = st.dnf_checks
         \* lines 171-176
         /\ safety_car' = sc_update(IF st.dnf_occurred
                                    THEN sc_check_deployment(safety_car, TRUE, sc_draw)
                                    ELSE safety_car)
         /\ sc_deployed_at' = IF st.dnf_occurred /\ ~safety_car.active /\ sc_draw
                              THEN IF agents_list # <<>>
                                   THEN leading_lap(moved, agents_list) ELSE current_lap
                              ELSE sc_deployed_at
         \* lines 178-180
         /\ leaderboard' = IF enable_live_updates
                           THEN update_leaderboard(leaderboard, st.agent, agents_list)
                           ELSE leaderboard
         \* lines 185-187: finish_race when every agent is in finished_agents
         /\ IF all_agents_finished(st.finished_agents, agents_list)
            THEN /\ race_finished' = TRUE
                 /\ running' = FALSE
                 /\ event_log' = Append(st.event_log,
                       Event("race_finish", None, None, None, None, now))
            ELSE /\ race_finished' = race_finished
                 /\ running' = running
                 /\ event_log' = st.event_log
    /\ UNCHANGED <<agents_list, race_started, enable_live_updates, pit, pit_call, physics_vars>>

\* one tick of a race that is no longer than MaxSteps ticks
Step ==
    /\ current_step < MaxSteps
    /\ StepAt(current_step + 1)

Next == AddAgent \/ StartRace \/ StepIdle \/ Step

Spec == Init /\ [][Next]_vars

(***************************************************************************)
(* The leaderboard on its own: register_agent and update_agent called with *)
(* any arguments, in any order.                                            *)
(***************************************************************************)
\* the agent ids handed to the leaderboard; they are registered in this order
LbIds == {1, 2, 3}
\* the values of the Optional arguments lap, position_on_track and time
LbLaps == {None, 0, 1}
LbPositions == {None, 0, 1}
LbTimes == {None, 0}

\* Leaderboard.register_agent, of a registered id or of the next new one
LbRegister ==
    /\ \E id \in LbIds :
         /\ id <= Len(leaderboard.ids) + 1
         /\ leaderboard' = register_agent(leaderboard, id)
    /\ UNCHANGED <<agents_list, agent, finished_agents, current_step, current_lap,
                   running, race_started, race_finished, safety_car, dnf_history,
                   enable_live_updates, event_log, dnf_checks,
                   sc_deployed_at, pit, pit_call, physics_vars>>

\* Leaderboard.update_agent
LbUpdate ==
    /\ \E id \in LbIds, lap \in LbLaps, pos \in LbPositions, finished \in BOOLEAN,
          time \in LbTimes :
         leaderboard' = update_agent(leaderboard, id, lap, pos, finished, time)
    /\ UNCHANGED <<agents_list, agent, finished_agents, current_step, current_lap,
                   running, race_started, race_finished, safety_car, dnf_history,
                   enable_live_updates, event_log, dnf_checks,
                   sc_deployed_at, pit, pit_call, physics_vars>>

NextLB == LbRegister \/ LbUpdate

SpecLB == Init /\ [][NextLB]_vars

(***************************************************************************)
(* Properties.                                                             *)
(***************************************************************************)
\* the events of one agent, in the order they were triggered
AgentEvents(id) == SelectSeq(event_log, LAMBDA e : e.agent = id)

\* the lap_complete events of one agent among the events after the first n
NewLapEvents(log, n, id) ==
    {i \in (n + 1)..Len(log) : log[i].type = "lap_complete" /\ log[i].agent = id}

\* C1: every vehicle that has finished a race of NumLaps laps has triggered
\* exactly NumLaps lap_complete events, carrying lap = 1, 2, ..., NumLaps in that
\* order, followed by exactly one agent_finish event in the same tick as the last
\* lap_complete, and it has lap = NumLaps and finished = TRUE.
C1_FinishAfterAllLaps ==
    \A id \in Range(agents_list) :
        agent[id].finished =>
            LET ev == AgentEvents(id)
            IN  /\ Len(ev) = NumLaps + 1
                /\ \A i \in 1..NumLaps :
                       ev[i].type = "lap_complete" /\ ev[i].lap = i
                /\ ev[NumLaps + 1].type = "agent_finish"
                /\ ev[NumLaps + 1].tick = ev[NumLaps].tick
                /\ agent[id].lap = NumLaps
                /\ Len(agent[id].lap_times) = NumLaps

\* a vehicle has finished the race
C1_Witness ==
    \E id \in Range(agents_list) :
        agent[id].finished /\ agent[id].lap = NumLaps /\ id \in Range(finished_agents)

\* C2: in every tick in which a vehicle that was not finished reaches or passes
\* the track length (its position before any wrap is >= TrackLength), its lap
\* count increases by exactly one, one lap time is recorded and one lap_complete
\* event fires in that tick, whatever the type of the vehicle.
C2_LapDetectedInSameTick ==
    [][\A id \in Range(agents_list) :
          (/\ current_step' = current_step + 1
           /\ ~agent[id].finished
           /\ agent'[id].unwrapped >= TrackLength)
          => /\ agent'[id].lap = agent[id].lap + 1
             /\ Len(agent'[id].lap_times) = Len(agent[id].lap_times) + 1
             /\ Cardinality(NewLapEvents(event_log', Len(event_log), id)) = 1]_vars

\* C3: the position of every vehicle is at least 0 and less than the track length.
C3_PositionInTrack ==
    \A id \in Range(agents_list) :
        0 <= agent[id].position /\ agent[id].position < TrackLength

\* a racing vehicle and another vehicle have both reached the line
C3_Witness ==
    /\ \E id \in Range(agents_list) :
         agent[id].kind = "RacingVehicle" /\ agent[id].just_crossed_line
    /\ \E id \in Range(agents_list) :
         agent[id].kind = "MobilityAgent" /\ agent[id].lap > 0

\* C4: once the leaderboard has given an entry a finish_position, no later call
\* of register_agent or update_agent, with whatever arguments and for whichever
\* agent, changes it.
C4_FinishPositionStable ==
    [][\A id \in DOMAIN leaderboard.agents :
          leaderboard.agents[id].finish_position # None
          => leaderboard'.agents[id].finish_position =
                 leaderboard.agents[id].finish_position]_vars

\* every registered agent has finished, one after the other, and the first
\* finisher has been updated again since
C4_Witness ==
    /\ Len(leaderboard.ids) = Cardinality(LbIds)
    /\ {leaderboard.agents[id].finish_position : id \in DOMAIN leaderboard.agents}
           = 1..Cardinality(LbIds)
    /\ \E id \in DOMAIN leaderboard.agents :
         /\ leaderboard.agents[id].finish_position = 1
         /\ leaderboard.agents[id].lap = 1
         /\ leaderboard.agents[id].position_on_track = 1

\* the entry at index i of the sorted ranking list
SortedEntry(i) == leaderboard.agents[leaderboard.sorted[i]]

\* C5: the sorted ranking list holds every registered agent once; in it every
\* finished entry comes before every unfinished one, the finished entries are in
\* ascending finish_position, and the unfinished entries are in descending lap
\* and, within a lap, in descending position_on_track.
C5_RankingOrder ==
    /\ Len(leaderboard.sorted) = Len(leaderboard.ids)
    /\ Range(leaderboard.sorted) = Range(leaderboard.ids)
    /\ \A i, j \in 1..Len(leaderboard.sorted) :
         i < j =>
           /\ SortedEntry(j).finished => SortedEntry(i).finished
           /\ SortedEntry(i).finished /\ SortedEntry(j).finished
                => SortedEntry(i).finish_position < SortedEntry(j).finish_position
           /\ ~SortedEntry(i).finished /\ ~SortedEntry(j).finished
                => \/ SortedEntry(i).lap > SortedEntry(j).lap
                   \/ /\ SortedEntry(i).lap = SortedEntry(j).lap
                      /\ SortedEntry(i).position_on_track
                             >= SortedEntry(j).position_on_track

\* the last registered agent has finished and leads the list, ahead of an
\* unfinished agent on lap 1 that is ahead of an unfinished agent on lap 0
C5_Witness ==
    /\ Len(leaderboard.sorted) = 3
    /\ leaderboard.sorted[1] = leaderboard.ids[3]
    /\ SortedEntry(1).finished
    /\ ~SortedEntry(2).finished /\ SortedEntry(2).lap = 1
    /\ ~SortedEntry(3).finished /\ SortedEntry(3).lap = 0

\* C6: the ranks of the N registered agents are the values 1..N, each used once,
\* and rank i belongs to the entry at index i of the sorted ranking list.
C6_DenseRanks ==
    /\ Len(leaderboard.sorted) = Cardinality(DOMAIN leaderboard.agents)
    /\ \A i \in 1..Len(leaderboard.sorted) : SortedEntry(i).rank = i
    /\ {leaderboard.agents[id].rank : id \in DOMAIN leaderboard.agents}
           = 1..Cardinality(DOMAIN leaderboard.agents)
    /\ \A a, b \in DOMAIN leaderboard.agents :
         leaderboard.agents[a].rank = leaderboard.agents[b].rank => a = b

\* three agents are registered and an update has reordered them
C6_Witness ==
    /\ Len(leaderboard.ids) = 3
    /\ leaderboard.sorted # leaderboard.ids
    /\ leaderboard.agents[leaderboard.ids[3]].rank = 1

\* every registered vehicle is in a finished state (a DNF sets finished too)
AllFinished == \A id \in Range(agents_list) : agent[id].finished

\* the race state Finished
Finished == race_finished /\ ~running

C8_NoProgressBeforeStart ==
    ~race_started =>
        /\ current_step = 0
        /\ ~race_finished
        /\ \A id \in Range(agents_list) : agent[id].position = 0 /\ agent[id].speed = 0

\* No racing vehicle ever completes a lap, so no DNF check is ever due: the
\* vehicle wraps its own position in _move, and the orchestrator then never sees
\* a position >= TrackLength.  Hence DNFManager.check_dnf is never called, no DNF
\* is recorded and the safety car is never deployed.
NoRacingLapNoDnf ==
    /\ \A id \in Range(agents_list) :
         agent[id].kind = "RacingVehicle"
         => agent[id].lap = 0 /\ ~agent[id].finished /\ ~dnf_check_due(agent[id])
    /\ dnf_checks = <<>>
    /\ dnf_history = <<>>
    /\ safety_car = NewSafetyCar

(***************************************************************************)
(* The safety car on its own, driven as MobilitySimulation.step drives it: *)
(* in every tick check_deployment(dnf_occurred=True) when a DNF occurred,  *)
(* then update(current_lap).  Whether a DNF occurred in the tick, and      *)
(* whether the leading vehicle completed a lap in it (at most one lap is   *)
(* completed per tick), are inputs.                                        *)
(***************************************************************************)
\* MobilitySimulation.step, lines 145 and 171-176
ScTick ==
    /\ current_step < MaxSteps
    /\ \E dnf_occurred \in BOOLEAN, lap \in {current_lap, current_lap + 1} :
       \* the draw check_deployment would take
       \E draw \in IF dnf_occurred THEN BOOLEAN ELSE {FALSE} :
       \E checked \in {IF dnf_occurred
                       THEN sc_check_deployment(safety_car, TRUE, draw)
                       ELSE safety_car} :
         /\ current_step' = current_step + 1
         /\ current_lap' = lap
         /\ safety_car' = sc_update(checked)
         /\ sc_deployed_at' = IF checked.total_deployments > safety_car.total_deployments
                              THEN lap ELSE sc_deployed_at
         /\ calc' = [op |-> "step", dnf_occurred |-> dnf_occurred]
    /\ UNCHANGED <<leaderboard, agents_list, agent, finished_agents, running,
                   race_started, race_finished, dnf_history, enable_live_updates,
                   event_log, dnf_checks, pit, pit_call, tire, track>>

NextSC == ScTick

SpecSC == Init /\ [][NextSC]_vars

\* C11: a deployed safety car is withdrawn only when safety_car_duration laps of
\* the leading vehicle have elapsed since it was deployed.
C11_ActiveForDurationInLaps ==
    [][(safety_car.active /\ ~safety_car'.active)
       => current_lap' - sc_deployed_at >= SafetyCarDuration]_vars

\* C31: the safety car is deployed only in a tick in which a vehicle DNFed and
\* only if it is not already active: a tick without a DNF never deploys it, and
\* a DNF while it is active neither re-deploys it, nor resets its remaining laps,
\* nor increments total_deployments.
C31_DeployedOnlyOnDnfWhenInactive ==
    [][current_step' = current_step + 1 =>
         /\ safety_car'.total_deployments > safety_car.total_deployments
               => (calc'.dnf_occurred /\ ~safety_car.active)
         /\ (~safety_car.active /\ safety_car'.active) => calc'.dnf_occurred
         /\ ~calc'.dnf_occurred
               => safety_car'.total_deployments = safety_car.total_deployments
         /\ safety_car.active =>
               /\ safety_car'.total_deployments = safety_car.total_deployments
               /\ safety_car'.laps_remaining < safety_car.laps_remaining]_vars

\* a vehicle DNFed in a tick in which the safety car had been out for some
\* ticks, and it is still out on its only deployment
C31_Witness ==
    /\ calc.op = "step" /\ calc.dnf_occurred
    /\ safety_car.active /\ safety_car.total_deployments = 1
    /\ safety_car.laps_remaining < SafetyCarDuration - 1

\* the slipstream flag of vehicle id as the claim states it, from the positions
\* and laps of the current state: some other racing vehicle on the same lap is
\* ahead by more than 0 and less than 50 metres
SlipstreamFromSnapshot(id) ==
    \E o \in Range(agents_list) \ {id} :
        /\ agent[o].kind = "RacingVehicle"
        /\ agent[o].lap = agent[id].lap
        /\ (agent[o].position - agent[id].position) * MetresPerUnit > 0
        /\ (agent[o].position - agent[id].position) * MetresPerUnit < 50

NoObject == [is_none |-> TRUE]

\* TIRE_SPECS[compound].max_life
max_life(compound) ==
    CASE compound = "SOFT" -> 20
      [] compound = "MEDIUM" -> 35
      [] compound = "HARD" -> 50
      [] compound = "INTERMEDIATE" -> 30
      [] compound = "WET" -> 40

\* TireSet.__init__
NewTireSet(compound, age_at_fitting, initial_temperature) ==
    [compound |-> compound, laps_used |-> age_at_fitting,
     temperature |-> initial_temperature, wear_percentage |-> 0,
     is_damaged |-> FALSE]

\* TireSet.needs_replacement
needs_replacement(t) ==
    t.wear_percentage > 80 \/ t.laps_used > max_life(t.compound) \/ t.is_damaged

(***************************************************************************)
(* The physics of a TireSet.  Real numbers are kept as whole numbers of a  *)
(* stated unit: wear in whole percent and temperature in whole degrees     *)
(* (the change of one update is rounded down), speed in km/h; a rate or a  *)
(* grip level is the numerator of a fraction whose denominator is named.   *)
(***************************************************************************)
\* TIRE_SPECS[compound].base_grip, in twentieths
base_grip(compound) ==
    CASE compound = "SOFT" -> 20
      [] compound = "MEDIUM" -> 19
      [] compound = "HARD" -> 18
      [] compound = "INTERMEDIATE" -> 17
      [] compound = "WET" -> 15

\* TIRE_SPECS[compound].degradation_rate, in tenths of a percent per lap
degradation_rate(compound) ==
    CASE compound = "SOFT" -> 25
      [] compound = "MEDIUM" -> 15
      [] compound = "HARD" -> 8
      [] compound = "INTERMEDIATE" -> 12
      [] compound = "WET" -> 10

\* TIRE_SPECS[compound].optimal_temp_min
optimal_temp_min(compound) ==
    CASE compound = "SOFT" -> 90
      [] compound = "MEDIUM" -> 85
      [] compound = "HARD" -> 80
      [] compound = "INTERMEDIATE" -> 70
      [] compound = "WET" -> 60

\* TIRE_SPECS[compound].optimal_temp_max
optimal_temp_max(compound) ==
    CASE compound = "SOFT" -> 110
      [] compound = "MEDIUM" -> 105
      [] compound = "HARD" -> 100
      [] compound = "INTERMEDIATE" -> 90
      [] compound = "WET" -> 80

\* TIRE_SPECS[compound].warmup_laps
warmup_laps(compound) ==
    CASE compound = "SOFT" -> 1
      [] compound = "MEDIUM" -> 2
      [] compound = "HARD" -> 3
      [] compound = "INTERMEDIATE" -> 2
      [] compound = "WET" -> 2

SlickCompounds == {"SOFT", "MEDIUM", "HARD"}
Compounds == SlickCompounds \cup {"INTERMEDIATE", "WET"}

\* TireSet._calculate_target_temperature
calculate_target_temperature(speed, ambient_temp, is_wet) ==
    LET base_temp == ambient_temp + (70 * Min(speed, 300)) \div 300
    IN  IF is_wet THEN (base_temp * 7) \div 10 ELSE base_temp

\* the denominator of a degradation rate of a compound, in percent per lap:
\* tenths (base rate), max_life squared (age), twelfths (speed), tenths (temperature)
DegradationDenominator(compound) ==
    10 * (max_life(compound) * max_life(compound)) * 12 * 10

\* the factors of _calculate_degradation other than the age multiplier: the
\* speed factor 1 + (speed / 300) * 0.5 in twelfths, the temperature factor in
\* tenths and the compound factor
degradation_factors(t, speed, is_wet) ==
    LET speed_factor == 12 + speed \div 50
        temp_factor == IF t.temperature < optimal_temp_min(t.compound) THEN 8
                       ELSE IF t.temperature > optimal_temp_max(t.compound) THEN 15
                       ELSE 10
        compound_factor == IF is_wet /\ t.compound \in SlickCompounds THEN 3
                           ELSE IF ~is_wet /\ t.compound \notin SlickCompounds THEN 2
                           ELSE 1
    IN  speed_factor * temp_factor * compound_factor

\* _calculate_degradation with an age multiplier that grows no more
calculate_degradation_without_age(t, speed, is_wet) ==
    degradation_rate(t.compound)
    * (max_life(t.compound) * max_life(t.compound))
    * degradation_factors(t, speed, is_wet)

\* TireSet._calculate_degradation, over DegradationDenominator(t.compound):
\* base_rate * (1 + (laps_used / max_life)^2) * speed, temperature and compound factors
calculate_degradation(t, speed, is_wet) ==
    degradation_rate(t.compound)
    * (max_life(t.compound) * max_life(t.compound) + t.laps_used * t.laps_used)
    * degradation_factors(t, speed, is_wet)

\* TireSet.update without the cap of the wear at 100
tire_update_uncapped(t, lap_distance, track_length, speed, ambient_temp, is_wet) ==
    LET target_temp == calculate_target_temperature(speed, ambient_temp, is_wet)
        warmed == [t EXCEPT !.temperature = @ + (target_temp - @) \div 10]
        degradation == (calculate_degradation(warmed, speed, is_wet) * lap_distance)
                           \div (DegradationDenominator(t.compound) * track_length)
    IN  [warmed EXCEPT
           !.wear_percentage = @ + degradation,
           !.laps_used = IF 100 * lap_distance >= 95 * track_length THEN @ + 1 ELSE @]

\* TireSet.update
tire_update(t, lap_distance, track_length, speed, ambient_temp, is_wet) ==
    LET target_temp == calculate_target_temperature(speed, ambient_temp, is_wet)
        warmed == [t EXCEPT !.temperature = @ + (target_temp - @) \div 10]
        degradation == (calculate_degradation(warmed, speed, is_wet) * lap_distance)
                           \div (DegradationDenominator(t.compound) * track_length)
    IN  [warmed EXCEPT
           !.wear_percentage = Min(100, @ + degradation),
           !.laps_used = IF 100 * lap_distance >= 95 * track_length THEN @ + 1 ELSE @]

\* the denominator of a grip level: twentieths (base grip), 250ths (wear),
\* 150ths (temperature), tenths (conditions), tenths (damage)
GripDenominator == 20 * 250 * 150 * 10 * 10

\* TireSet.get_grip_level, over GripDenominator
get_grip_level(t, is_wet) ==
    LET wear_factor == Max(150, 250 - t.wear_percentage)
        temp_factor ==
            IF optimal_temp_min(t.compound) <= t.temperature
               /\ t.temperature <= optimal_temp_max(t.compound) THEN 150
            ELSE IF t.temperature < optimal_temp_min(t.compound)
            THEN Max(105, 150 - 3 * (optimal_temp_min(t.compound) - t.temperature))
            ELSE Max(120, 150 - 5 * (t.temperature - optimal_temp_max(t.compound)))
        condition_factor ==
            IF is_wet
            THEN IF t.compound = "WET" THEN 12
                 ELSE IF t.compound = "INTERMEDIATE" THEN 10 ELSE 5
            ELSE IF t.compound \in {"INTERMEDIATE", "WET"} THEN 7 ELSE 10
        damage_factor == IF t.is_damaged THEN 3 ELSE 10
    IN  base_grip(t.compound) * wear_factor * temp_factor * condition_factor
        * damage_factor

\* get_performance_multiplier giving the fresh-tire gain at any grip level
get_performance_multiplier_any_grip(t, is_wet) ==
    LET grip == get_grip_level(t, is_wet)
    IN  IF t.laps_used <= warmup_laps(t.compound)
        THEN Min(12 * GripDenominator, 11 * grip)
        ELSE 10 * grip

\* TireSet.get_performance_multiplier, over 10 * GripDenominator
get_performance_multiplier(t, is_wet) ==
    LET grip == get_grip_level(t, is_wet)
    IN  IF t.laps_used <= warmup_laps(t.compound) /\ 20 * grip > 19 * GripDenominator
        THEN Min(12 * GripDenominator, 11 * grip)
        ELSE 10 * grip

\* the keys of CIRCUIT_NAME_MAPPING (one of them stands for all)
MappedCircuits == {"monza"}

\* OpenF1Client.analyze_circuit_strategy as get_openf1_strategy_data sees it:
\* it raises, or returns nothing, a dict with "error", or the analysis.
\* In a stint table a compound is missing or has its average stint length.
StintTables ==
    {[c \in cs |-> 3] : cs \in {{}, {"MEDIUM"}}} \cup
    {[c \in {"SOFT", "MEDIUM", "HARD"} |-> n] : n \in {1, 5}}
FetchOutcomes ==
    {[kind |-> "raises"], [kind |-> "nothing"], [kind |-> "error"]} \cup
    {[kind |-> "analysis", average_stint_lengths |-> t] : t \in StintTables}

\* get_openf1_strategy_data letting the exception of the fetch escape
get_openf1_strategy_data_uncaught(circuit_name, fetch) ==
    IF circuit_name \notin MappedCircuits THEN [value |-> NoObject, raised |-> FALSE]
    ELSE IF fetch.kind = "raises" THEN [value |-> NoObject, raised |-> TRUE]
    ELSE IF fetch.kind = "analysis"
         THEN [value |-> [average_stint_lengths |-> fetch.average_stint_lengths],
               raised |-> FALSE]
         ELSE [value |-> NoObject, raised |-> FALSE]

\* get_openf1_strategy_data (with an empty cache): the strategy data or None;
\* raised tells whether an exception leaves the function
get_openf1_strategy_data(circuit_name, fetch) ==
    IF circuit_name \notin MappedCircuits THEN [value |-> NoObject, raised |-> FALSE]
    ELSE IF fetch.kind = "raises" THEN [value |-> NoObject, raised |-> FALSE]
    ELSE IF fetch.kind = "analysis"
         THEN [value |-> [average_stint_lengths |-> fetch.average_stint_lengths],
               raised |-> FALSE]
         ELSE [value |-> NoObject, raised |-> FALSE]

\* PitStopStrategy.__init__; circuit_name "" stands for None.  fetch_outcome
\* remembers what the fetch of the constructor met ("none": no fetch was made).
NewPitStopStrategy(total_laps, pit_lane_time_loss, circuit_name, fetch) ==
    LET data == IF circuit_name # "" THEN get_openf1_strategy_data(circuit_name, fetch)
                ELSE [value |-> NoObject, raised |-> FALSE]
    IN  [pit |-> [constructed |-> TRUE, total_laps |-> total_laps,
                  pit_lane_time_loss |-> pit_lane_time_loss,
                  circuit_name |-> circuit_name,
                  fetch_outcome |-> IF circuit_name \in MappedCircuits
                                    THEN fetch.kind ELSE "none",
                  openf1_data |-> data.value,
                  planned_stops |-> <<>>, completed_stops |-> <<>>,
                  in_pit_lane |-> FALSE, current_stop_timer |-> 0,
                  current_stop_data |-> NoObject, new_tires_ready |-> NoObject],
         raised |-> data.raised]

\* the table 'strategies' of _plan_basic_strategy
BasicStrategies(target_stops) ==
    CASE target_stops = 1 -> << <<"MEDIUM", "HARD">>, <<"SOFT", "MEDIUM">> >>
      [] target_stops = 2 -> << <<"SOFT", "MEDIUM", "SOFT">>,
                                <<"MEDIUM", "HARD", "MEDIUM">>,
                                <<"SOFT", "MEDIUM", "HARD">> >>
      [] target_stops = 3 -> << <<"SOFT", "SOFT", "MEDIUM", "SOFT">>,
                                <<"MEDIUM", "SOFT", "SOFT", "MEDIUM">> >>
      [] OTHER -> <<>>

\* the table 'strategies' of _plan_from_openf1_data
OpenF1Strategies(target_stops) ==
    CASE target_stops = 1 -> << <<"MEDIUM", "HARD">>, <<"SOFT", "MEDIUM">> >>
      [] target_stops = 2 -> << <<"SOFT", "MEDIUM", "SOFT">>,
                                <<"MEDIUM", "HARD", "MEDIUM">> >>
      [] target_stops = 3 -> << <<"SOFT", "SOFT", "MEDIUM", "SOFT">> >>
      [] OTHER -> <<>>

\* the variation of stint i: ((seed_offset + i * 37) % (2 * range + 1)) - range
stint_variation(seed_offset, i, variation_range) ==
    ((seed_offset + i * 37) % (variation_range * 2 + 1)) - variation_range

\* the clamp without its upper end
clamp_stop_lap_from_below(total_laps, lap) == Max(2, lap)

\* max(2, min(total_laps - 2, lap)), lines 263 and 335
clamp_stop_lap(total_laps, lap) == Max(2, Min(total_laps - 2, lap))

\* PitStopStrategy._plan_basic_strategy; choice is the index random.choice picks
plan_basic_strategy(p, target_stops, seed_offset, choice) ==
    LET laps_per_stint == p.total_laps \div (target_stops + 1)
        variation_range == Max(2, (laps_per_stint * 15) \div 100)
    IN  IF target_stops \in 1..3
        THEN LET compounds == BasicStrategies(target_stops)[choice]
             IN  [j \in 1..target_stops |->
                    <<clamp_stop_lap(p.total_laps,
                          j * laps_per_stint
                          + stint_variation(seed_offset, j - 1, variation_range)),
                      compounds[j + 1]>>]
        ELSE <<>>

\* the stint length of _plan_from_openf1_data, lines 313-326, before the variation
openf1_stint_length(p, stint_compound, target_stops) ==
    LET avg_stints == p.openf1_data.average_stint_lengths
    IN  IF stint_compound \in DOMAIN avg_stints THEN avg_stints[stint_compound]
        ELSE CASE stint_compound = "SOFT" -> (p.total_laps * 25) \div 100
               [] stint_compound = "MEDIUM" -> (p.total_laps * 35) \div 100
               [] stint_compound = "HARD" -> (p.total_laps * 45) \div 100
               [] OTHER -> p.total_laps \div (target_stops + 1)

\* the loop of _plan_from_openf1_data, lines 311-342, from stint i on
RECURSIVE openf1_stops(_, _, _, _, _, _)
openf1_stops(p, strategy_compounds, target_stops, seed_offset, i, at_lap) ==
    IF i >= target_stops THEN <<>>
    ELSE LET stint_length ==
                 openf1_stint_length(p, strategy_compounds[i + 1], target_stops)
             variation_range == Max(2, stint_length \div 10)
             pit_lap == clamp_stop_lap(p.total_laps,
                            at_lap + stint_length
                            + stint_variation(seed_offset, i, variation_range))
         IN  << <<pit_lap, strategy_compounds[i + 2]>> >> \o
             openf1_stops(p, strategy_compounds, target_stops, seed_offset,
                          i + 1, pit_lap)

\* PitStopStrategy._plan_from_openf1_data
plan_from_openf1_data(p, target_stops, seed_offset, choice) ==
    IF target_stops \notin 1..3
    THEN plan_basic_strategy(p, target_stops, seed_offset, choice)
    ELSE openf1_stops(p,
             OpenF1Strategies(target_stops)
                 [(seed_offset % Len(OpenF1Strategies(target_stops))) + 1],
             target_stops, seed_offset, 0, 1)

\* which planner plan_strategy uses: the test of line 198
uses_openf1_data(p) ==
    p.openf1_data # NoObject /\ "average_stint_lengths" \in DOMAIN p.openf1_data

\* PitStopStrategy.plan_strategy: the new planned_stops, and the planner that
\* made them ("none" for target_stops = 0)
plan_strategy(p, starting_compound, target_stops, seed_offset, choice) ==
    IF target_stops = 0 THEN [planned_stops |-> <<>>, planner |-> "none"]
    ELSE IF uses_openf1_data(p)
    THEN [planned_stops |-> plan_from_openf1_data(p, target_stops, seed_offset, choice),
          planner |-> "openf1"]
    ELSE [planned_stops |-> plan_basic_strategy(p, target_stops, seed_offset, choice),
          planner |-> "basic"]

\* the indices random.choice can pick in _plan_basic_strategy
BasicChoices(target_stops) ==
    IF target_stops \in 1..3 THEN 1..Len(BasicStrategies(target_stops)) ELSE {1}

\* should_pit without the tire check
should_pit_ignoring_tires(p, at_lap, current_tires, is_damaged) ==
    IF is_damaged THEN TRUE
    ELSE \E j \in 1..Len(p.planned_stops) : at_lap = p.planned_stops[j][1]

\* should_pit without the damage check
should_pit_ignoring_damage(p, at_lap, current_tires, is_damaged) ==
    IF needs_replacement(current_tires) THEN TRUE
    ELSE \E j \in 1..Len(p.planned_stops) : at_lap = p.planned_stops[j][1]

\* PitStopStrategy.should_pit
should_pit(p, at_lap, current_tires, is_damaged) ==
    IF is_damaged THEN TRUE
    ELSE IF needs_replacement(current_tires) THEN TRUE
    ELSE \E j \in 1..Len(p.planned_stops) : at_lap = p.planned_stops[j][1]

\* the compound of the first stop planned for exactly at_lap, MEDIUM when there
\* is none
entry_compound_of_exact_lap(p, at_lap) ==
    LET here == {j \in 1..Len(p.planned_stops) : p.planned_stops[j][1] = at_lap}
    IN  IF here = {} THEN "MEDIUM"
        ELSE p.planned_stops[CHOOSE j \in here : \A k \in here : j <= k][2]

\* the compound execute_pit_entry selects, lines 390-394: that of the first
\* planned stop within one lap of at_lap, MEDIUM when there is none
entry_compound(p, at_lap) ==
    LET near == {j \in 1..Len(p.planned_stops) :
                    p.planned_stops[j][1] - at_lap \in -1..1}
    IN  IF near = {} THEN "MEDIUM"
        ELSE p.planned_stops[CHOOSE j \in near : \A k \in near : j <= k][2]

\* execute_pit_entry without the test of in_pit_lane: every entry starts a stop
execute_pit_entry_unguarded(p, at_lap, current_tires, duration) ==
    [pit |-> [p EXCEPT
                !.in_pit_lane = TRUE,
                !.current_stop_timer = 0,
                !.current_stop_data =
                    [lap_number |-> at_lap,
                     pit_stop_number |-> Len(p.completed_stops) + 1,
                     stop_type |-> "TIRE_CHANGE",
                     old_compound |-> current_tires.compound,
                     new_compound |-> entry_compound(p, at_lap),
                     duration |-> duration, time_stationary |-> 0,
                     time_lost |-> 0,
                     tyre_age_at_stop |-> current_tires.laps_used],
                !.new_tires_ready = NewTireSet(entry_compound(p, at_lap), 0, 60)],
     raised |-> FALSE]

\* PitStopStrategy.execute_pit_entry; duration is the one PitStop.__post_init__
\* draws.  raised tells whether the call reports an error to its caller.
execute_pit_entry(p, at_lap, current_tires, duration) ==
    IF p.in_pit_lane THEN [pit |-> p, raised |-> FALSE]
    ELSE [pit |-> [p EXCEPT
                     !.in_pit_lane = TRUE,
                     !.current_stop_timer = 0,
                     !.current_stop_data =
                         [lap_number |-> at_lap,
                          pit_stop_number |-> Len(p.completed_stops) + 1,
                          stop_type |-> "TIRE_CHANGE",
                          old_compound |-> current_tires.compound,
                          new_compound |-> entry_compound(p, at_lap),
                          duration |-> duration, time_stationary |-> 0,
                          time_lost |-> 0,
                          tyre_age_at_stop |-> current_tires.laps_used],
                     !.new_tires_ready =
                         NewTireSet(entry_compound(p, at_lap), 0, 60)],
          raised |-> FALSE]

\* update_pit_stop completing only once the timer exceeds the time needed
update_pit_stop_strict(p, dt) ==
    IF ~p.in_pit_lane \/ p.current_stop_data = NoObject
    THEN [pit |-> p, stop_complete |-> FALSE, new_tires |-> NoObject]
    ELSE LET timer == p.current_stop_timer + dt
             total_time_needed == p.current_stop_data.duration + p.pit_lane_time_loss
         IN  IF timer > total_time_needed
             THEN [pit |-> [p EXCEPT
                              !.completed_stops = Append(@,
                                  [p.current_stop_data EXCEPT
                                     !.time_stationary = p.current_stop_data.duration,
                                     !.time_lost = total_time_needed]),
                              !.in_pit_lane = FALSE,
                              !.current_stop_data = NoObject,
                              !.new_tires_ready = NoObject,
                              !.current_stop_timer = 0],
                   stop_complete |-> TRUE, new_tires |-> p.new_tires_ready]
             ELSE [pit |-> [p EXCEPT !.current_stop_timer = timer],
                   stop_complete |-> FALSE, new_tires |-> NoObject]

\* update_pit_stop that hands the tires over and leaves the vehicle in the pit lane
update_pit_stop_staying_in_lane(p, dt) ==
    IF ~p.in_pit_lane \/ p.current_stop_data = NoObject
    THEN [pit |-> p, stop_complete |-> FALSE, new_tires |-> NoObject]
    ELSE LET timer == p.current_stop_timer + dt
             total_time_needed == p.current_stop_data.duration + p.pit_lane_time_loss
         IN  IF timer >= total_time_needed
             THEN [pit |-> [p EXCEPT
                              !.completed_stops = Append(@,
                                  [p.current_stop_data EXCEPT
                                     !.time_stationary = p.current_stop_data.duration,
                                     !.time_lost = total_time_needed])],
                   stop_complete |-> TRUE, new_tires |-> p.new_tires_ready]
             ELSE [pit |-> [p EXCEPT !.current_stop_timer = timer],
                   stop_complete |-> FALSE, new_tires |-> NoObject]

\* PitStopStrategy.update_pit_stop: the strategy after the call and the pair it
\* returns
update_pit_stop(p, dt) ==
    IF ~p.in_pit_lane \/ p.current_stop_data = NoObject
    THEN [pit |-> p, stop_complete |-> FALSE, new_tires |-> NoObject]
    ELSE LET timer == p.current_stop_timer + dt
             total_time_needed == p.current_stop_data.duration + p.pit_lane_time_loss
         IN  IF timer >= total_time_needed
             THEN [pit |-> [p EXCEPT
                              !.completed_stops = Append(@,
                                  [p.current_stop_data EXCEPT
                                     !.time_stationary = p.current_stop_data.duration,
                                     !.time_lost = total_time_needed]),
                              !.in_pit_lane = FALSE,
                              !.current_stop_data = NoObject,
                              !.new_tires_ready = NoObject,
                              !.current_stop_timer = 0],
                   stop_complete |-> TRUE, new_tires |-> p.new_tires_ready]
             ELSE [pit |-> [p EXCEPT !.current_stop_timer = timer],
                   stop_complete |-> FALSE, new_tires |-> NoObject]

(***************************************************************************)
(* One PitStopStrategy driven by its caller: the pit lane machine.         *)
(***************************************************************************)
MaxCompletedStops == 1
PitTotalLaps == {4}
PitLaneTimeLosses == {1}
PitStopDurations == {2}
TimeSteps == {1, 2}
PitTargetStops == {0, 1}
\* the laps at which the caller asks and enters: a planned lap, the lap after it, a far one
PitLaps == {2, 3, 4}
\* fresh, aged, worn and damaged tire sets
TireSets ==
    {NewTireSet("SOFT", 0, 60), NewTireSet("SOFT", 21, 60),
     NewTireSet("HARD", 21, 60),
     [NewTireSet("SOFT", 0, 60) EXCEPT !.wear_percentage = 81],
     [NewTireSet("SOFT", 0, 60) EXCEPT !.is_damaged = TRUE]}

PitConstruct ==
    /\ ~pit.constructed
    /\ pit_call.op = "none"
    /\ \E total_laps \in PitTotalLaps, loss \in PitLaneTimeLosses :
       \E made \in {NewPitStopStrategy(total_laps, loss, "", [kind |-> "nothing"])} :
         /\ pit' = IF made.raised THEN pit ELSE made.pit
         /\ pit_call' = [op |-> "__init__", circuit_name |-> "",
                         fetch_outcome |-> "none", raised |-> made.raised]
    /\ UNCHANGED <<leaderboard, agents_list, agent, finished_agents, current_step, current_lap, running, race_started, race_finished, safety_car, dnf_history, enable_live_updates, event_log, dnf_checks, sc_deployed_at, physics_vars>>

PitPlan ==
    /\ pit.constructed
    /\ \E target_stops \in PitTargetStops :
       \E choice \in BasicChoices(target_stops) :
       \E plan \in {plan_strategy(pit, "MEDIUM", target_stops, 0, choice)} :
         /\ pit' = [pit EXCEPT !.planned_stops = plan.planned_stops]
         /\ pit_call' = [op |-> "plan_strategy", target_stops |-> target_stops,
                         seed_offset |-> 0, planner |-> plan.planner,
                         raised |-> FALSE]
    /\ UNCHANGED <<leaderboard, agents_list, agent, finished_agents, current_step, current_lap, running, race_started, race_finished, safety_car, dnf_history, enable_live_updates, event_log, dnf_checks, sc_deployed_at, physics_vars>>

PitShould ==
    /\ pit.constructed
    /\ \E at_lap \in PitLaps, current_tires \in TireSets, is_damaged \in BOOLEAN :
         pit_call' = [op |-> "should_pit", at_lap |-> at_lap,
                      current_tires |-> current_tires, is_damaged |-> is_damaged,
                      result |-> should_pit(pit, at_lap, current_tires, is_damaged)]
    /\ UNCHANGED <<leaderboard, agents_list, agent, finished_agents, current_step, current_lap, running, race_started, race_finished, safety_car, dnf_history, enable_live_updates, event_log, dnf_checks, sc_deployed_at, pit, physics_vars>>

PitEntry ==
    /\ pit.constructed
    /\ pit.in_pit_lane \/ Len(pit.completed_stops) < MaxCompletedStops
    /\ \E at_lap \in PitLaps, current_tires \in TireSets,
          duration \in PitStopDurations :
       \E entered \in {execute_pit_entry(pit, at_lap, current_tires, duration)} :
         /\ pit' = entered.pit
         /\ pit_call' = [op |-> "execute_pit_entry", at_lap |-> at_lap,
                         current_tires |-> current_tires,
                         raised |-> entered.raised]
    /\ UNCHANGED <<leaderboard, agents_list, agent, finished_agents, current_step, current_lap, running, race_started, race_finished, safety_car, dnf_history, enable_live_updates, event_log, dnf_checks, sc_deployed_at, physics_vars>>

PitUpdate ==
    /\ pit.constructed
    /\ \E dt \in TimeSteps :
       \E updated \in {update_pit_stop(pit, dt)} :
         /\ pit' = updated.pit
         /\ pit_call' = [op |-> "update_pit_stop", dt |-> dt,
                         stop_complete |-> updated.stop_complete,
                         new_tires |-> updated.new_tires]
    /\ UNCHANGED <<leaderboard, agents_list, agent, finished_agents, current_step, current_lap, running, race_started, race_finished, safety_car, dnf_history, enable_live_updates, event_log, dnf_checks, sc_deployed_at, physics_vars>>

NextPit == PitConstruct \/ PitPlan \/ PitShould \/ PitEntry \/ PitUpdate
SpecPit == Init /\ [][NextPit]_vars

(***************************************************************************)
(* One PitStopStrategy constructed for any circuit and asked for plans.    *)
(***************************************************************************)
MaxTotalLaps == 8
ScenarioLaps == 78
MaxTargetStops == 4
MaxSeedOffset == 11
TotalLaps == (1..MaxTotalLaps) \cup {ScenarioLaps}
\* no circuit name, a circuit without mapping, a mapped circuit
CircuitNames == {"", "nowhere", "monza"}

PlanConstruct ==
    /\ ~pit.constructed
    /\ pit_call.op = "none"
    /\ \E total_laps \in TotalLaps, loss \in PitLaneTimeLosses,
          circuit_name \in CircuitNames, fetch \in FetchOutcomes :
       \E made \in {NewPitStopStrategy(total_laps, loss, circuit_name, fetch)} :
         /\ pit' = IF made.raised THEN pit ELSE made.pit
         /\ pit_call' = [op |-> "__init__", circuit_name |-> circuit_name,
                         fetch_outcome |-> made.pit.fetch_outcome,
                         raised |-> made.raised]
    /\ UNCHANGED <<leaderboard, agents_list, agent, finished_agents, current_step, current_lap, running, race_started, race_finished, safety_car, dnf_history, enable_live_updates, event_log, dnf_checks, sc_deployed_at, physics_vars>>

PlanStrategy ==
    /\ pit.constructed
    /\ \E target_stops \in 0..MaxTargetStops, seed_offset \in 0..MaxSeedOffset :
       \E choice \in BasicChoices(target_stops) :
       \E plan \in {plan_strategy(pit, "MEDIUM", target_stops, seed_offset, choice)} :
         /\ pit' = [pit EXCEPT !.planned_stops = plan.planned_stops]
         /\ pit_call' = [op |-> "plan_strategy", target_stops |-> target_stops,
                         seed_offset |-> seed_offset, planner |-> plan.planner,
                         raised |-> FALSE]
    /\ UNCHANGED <<leaderboard, agents_list, agent, finished_agents, current_step, current_lap, running, race_started, race_finished, safety_car, dnf_history, enable_live_updates, event_log, dnf_checks, sc_deployed_at, physics_vars>>

NextPlan == PlanConstruct \/ PlanStrategy
SpecPlan == Init /\ [][NextPlan]_vars

(***************************************************************************)
(* Properties of the pit lane machine (SpecPit).                           *)
(***************************************************************************)
\* an entry request made while a stop is in progress
EntryDuringStop ==
    pit.constructed /\ pit.in_pit_lane /\ pit_call'.op = "execute_pit_entry"

\* C13: at most one stop is in progress at a time: after every call in_pit_lane
\* is true exactly when a current stop record and a pending replacement tire set
\* exist, and an entry request during a stop leaves the stop in progress as it
\* is and completes none.
C13_OneStopInProgress ==
    [][/\ pit'.constructed =>
            (pit'.in_pit_lane <=> (pit'.current_stop_data # NoObject
                                   /\ pit'.new_tires_ready # NoObject))
       /\ EntryDuringStop =>
            /\ pit'.current_stop_data = pit.current_stop_data
            /\ pit'.current_stop_timer = pit.current_stop_timer
            /\ pit'.completed_stops = pit.completed_stops]_vars

\* an entry was requested during a stop that had already run for some time
C13_Witness ==
    /\ pit.constructed /\ pit.in_pit_lane /\ pit.current_stop_timer > 0
    /\ pit_call.op = "execute_pit_entry"
    /\ pit.current_stop_data.lap_number # pit_call.at_lap

\* an entry is requested while no stop is in progress
EntryFromRacing ==
    pit.constructed /\ ~pit.in_pit_lane /\ pit_call'.op = "execute_pit_entry"

\* what the entry just made recorded, given the compound it had to select
EntryRecorded(compound) ==
    /\ pit'.in_pit_lane
    /\ pit'.current_stop_data.new_compound = compound
    /\ pit'.new_tires_ready = NewTireSet(compound, 0, 60)
    /\ pit'.current_stop_data.lap_number = pit_call'.at_lap
    /\ pit'.current_stop_data.old_compound = pit_call'.current_tires.compound
    /\ pit'.current_stop_data.tyre_age_at_stop = pit_call'.current_tires.laps_used
    /\ pit'.current_stop_data.pit_stop_number = Len(pit.completed_stops) + 1
    /\ pit'.completed_stops = pit.completed_stops

\* the laps of the planned stops of the strategy
PlannedLaps == {pit.planned_stops[j][1] : j \in 1..Len(pit.planned_stops)}

\* C32: execute_pit_entry puts the strategy in the pit lane and fits the compound
\* of the stop planned for the current lap when there is one and MEDIUM when no
\* stop is planned for the current lap; the stop recorded carries the old
\* compound, the tire age and the number of completed stops plus one.
C32_FitsCompoundPlannedForLap ==
    [][EntryFromRacing =>
         \E compound \in Compounds :
            /\ EntryRecorded(compound)
            /\ pit_call'.at_lap \notin PlannedLaps => compound = "MEDIUM"
            /\ \A j \in 1..Len(pit.planned_stops) :
                  (pit.planned_stops[j][1] = pit_call'.at_lap
                   /\ \A k \in 1..(j - 1) : pit.planned_stops[k][1] # pit_call'.at_lap)
                     => compound = pit.planned_stops[j][2]]_vars

\* C32 as the code has it: the compound fitted is that of the first planned stop
\* within one lap of the current lap, and MEDIUM when no stop is planned within
\* one lap of it.
C32_FitsCompoundPlannedWithinOneLap ==
    [][EntryFromRacing =>
         \E compound \in Compounds :
            /\ EntryRecorded(compound)
            /\ (\A l \in PlannedLaps : l - pit_call'.at_lap \notin -1..1)
                  => compound = "MEDIUM"
            /\ \A j \in 1..Len(pit.planned_stops) :
                  (pit.planned_stops[j][1] - pit_call'.at_lap \in -1..1
                   /\ \A k \in 1..(j - 1) :
                         pit.planned_stops[k][1] - pit_call'.at_lap \notin -1..1)
                     => compound = pit.planned_stops[j][2]]_vars

\* an entry one lap away from the only planned stop fitted the compound of that
\* stop, which is not MEDIUM, in place of worn tires of some age
C32_Witness ==
    /\ pit.constructed /\ pit.in_pit_lane /\ pit.current_stop_timer = 0
    /\ pit_call.op = "execute_pit_entry"
    /\ Len(pit.planned_stops) = 1
    /\ pit.planned_stops[1][1] - pit.current_stop_data.lap_number \in {0 - 1, 1}
    /\ pit.current_stop_data.new_compound = pit.planned_stops[1][2]
    /\ pit.current_stop_data.new_compound # "MEDIUM"
    /\ pit.current_stop_data.tyre_age_at_stop > 0

\* C14: an entry request during a stop in progress is reported to the caller as
\* an error, and the state of the stop in progress is left unchanged.
C14_EntryDuringStopIsAnError ==
    [][EntryDuringStop => pit_call'.raised /\ pit' = pit]_vars

\* C15: while a stop is in progress, update_pit_stop(dt) returns (False, None)
\* as long as the accumulated time stays below duration + pit_lane_time_loss;
\* the first call that reaches it returns (True, the tire set prepared at
\* entry), appends the stop with time_lost = duration + pit_lane_time_loss and
\* clears in_pit_lane, the timer and the pending tire set.
C15_UpdateCompletesAtTotalTime ==
    [][pit.constructed /\ pit.in_pit_lane /\ pit_call'.op = "update_pit_stop" =>
         LET needed == pit.current_stop_data.duration + pit.pit_lane_time_loss
             elapsed == pit.current_stop_timer + pit_call'.dt
         IN  IF elapsed < needed
             THEN /\ ~pit_call'.stop_complete /\ pit_call'.new_tires = NoObject
                  /\ pit'.in_pit_lane /\ pit'.current_stop_timer = elapsed
                  /\ pit'.completed_stops = pit.completed_stops
             ELSE /\ pit_call'.stop_complete
                  /\ pit_call'.new_tires =
                       NewTireSet(pit.current_stop_data.new_compound, 0, 60)
                  /\ Len(pit'.completed_stops) = Len(pit.completed_stops) + 1
                  /\ SubSeq(pit'.completed_stops, 1, Len(pit.completed_stops))
                       = pit.completed_stops
                  /\ pit'.completed_stops[Len(pit'.completed_stops)].lap_number
                       = pit.current_stop_data.lap_number
                  /\ pit'.completed_stops[Len(pit'.completed_stops)].time_lost = needed
                  /\ ~pit'.in_pit_lane /\ pit'.current_stop_timer = 0
                  /\ pit'.new_tires_ready = NoObject]_vars

\* an update has just completed a stop exactly at the time needed
C15_Witness ==
    /\ pit.constructed /\ pit_call.op = "update_pit_stop"
    /\ pit_call.stop_complete /\ pit_call.new_tires # NoObject
    /\ pit_call.dt = 1
    /\ Len(pit.completed_stops) = 1 /\ pit.completed_stops[1].time_lost = 3

\* C16: should_pit returns true if and only if is_damaged is true, or the tires
\* need replacement, or current_lap is the lap of a planned stop; the call
\* changes no state of the strategy.
C16_ShouldPitIff ==
    [][pit_call'.op = "should_pit" =>
         /\ pit_call'.result <=>
               \/ pit_call'.is_damaged
               \/ needs_replacement(pit_call'.current_tires)
               \/ pit_call'.at_lap \in
                     {pit.planned_stops[j][1] : j \in 1..Len(pit.planned_stops)}
         /\ pit' = pit]_vars

\* should_pit answered true for an undamaged vehicle on good tires: a planned lap
C16_Witness ==
    /\ pit.constructed /\ pit_call.op = "should_pit" /\ pit_call.result
    /\ ~pit_call.is_damaged /\ ~needs_replacement(pit_call.current_tires)
    /\ pit.planned_stops # <<>>

\* C17 as stated: a damaged vehicle always pits, and with an empty plan and
\* is_damaged false should_pit is false for every lap and every tire state.
C17_NoPlanNoDamageNeverPits ==
    pit_call.op = "should_pit" =>
        /\ pit_call.is_damaged => pit_call.result
        /\ (pit.planned_stops = <<>> /\ ~pit_call.is_damaged) => ~pit_call.result

\* C17 amended: a damaged vehicle always pits, and with an empty plan,
\* is_damaged false and tires that do not need replacement should_pit is false
\* for every lap.
C17_NoPlanNoDamageGoodTiresNeverPits ==
    pit_call.op = "should_pit" =>
        /\ pit_call.is_damaged => pit_call.result
        /\ (pit.planned_stops = <<>> /\ ~pit_call.is_damaged
            /\ ~needs_replacement(pit_call.current_tires)) => ~pit_call.result

\* a damaged vehicle was told to pit although nothing is planned and its tires
\* are good
C17_Witness ==
    /\ pit.constructed /\ pit_call.op = "should_pit"
    /\ pit.planned_stops = <<>> /\ pit_call.is_damaged
    /\ ~needs_replacement(pit_call.current_tires) /\ pit_call.result

(***************************************************************************)
(* Properties of the plans (SpecPlan).                                     *)
(***************************************************************************)
Planned == pit.constructed /\ pit_call.op = "plan_strategy"
StopLaps == {pit.planned_stops[j][1] : j \in 1..Len(pit.planned_stops)}

\* C18 as stated: every stop lap of a plan lies in [2, total_laps - 2], for
\* every total_laps, target_stops and seed_offset and both planners.
C18_StopLapsInRange ==
    Planned => \A lap \in StopLaps : 2 <= lap /\ lap <= pit.total_laps - 2

\* C18 amended: for every race of at least 4 laps, every stop lap of a plan
\* lies in [2, total_laps - 2], for every target_stops and seed_offset and both
\* planners.
C18_StopLapsInRangeFromFourLaps ==
    (Planned /\ pit.total_laps >= 4) =>
        \A lap \in StopLaps : 2 <= lap /\ lap <= pit.total_laps - 2

\* the historical-data planner made a plan whose stops were clamped at both ends
C18_Witness ==
    /\ Planned /\ pit_call.planner = "openf1" /\ pit.total_laps > 4
    /\ 2 \in StopLaps /\ pit.total_laps - 2 \in StopLaps

\* C19: without historical data plan_strategy with target_stops = k yields
\* exactly k planned stops; for the 78-lap race and k = 1 the one stop has a lap
\* strictly between 2 and 76, for every seed_offset.
C19_ExactlyKStops ==
    (Planned /\ pit.openf1_data = NoObject) =>
        /\ Len(pit.planned_stops) = pit_call.target_stops
        /\ (pit.total_laps = ScenarioLaps /\ pit_call.target_stops = 1) =>
              \A lap \in StopLaps : 2 < lap /\ lap < 76

\* historical data is unavailable: no circuit name, no mapping for the circuit,
\* a failed fetch, an empty or an error response
Unavailable(circuit_name, fetch_outcome) ==
    \/ circuit_name = ""
    \/ circuit_name \notin MappedCircuits
    \/ fetch_outcome \in {"raises", "nothing", "error"}

\* C20: when historical data is unavailable, constructing the strategy raises
\* no error and leaves it without data, and plan_strategy raises no error and
\* plans with the heuristic planner.
C20_FallbackWithoutError ==
    /\ (pit_call.op = "__init__"
        /\ Unavailable(pit_call.circuit_name, pit_call.fetch_outcome)) =>
          ~pit_call.raised /\ pit.constructed /\ pit.openf1_data = NoObject
    /\ (Planned /\ Unavailable(pit.circuit_name, pit.fetch_outcome)) =>
          /\ ~pit_call.raised
          /\ pit_call.target_stops >= 1 =>
                /\ pit_call.planner = "basic"
                /\ \E choice \in BasicChoices(pit_call.target_stops) :
                     pit.planned_stops =
                        plan_basic_strategy(pit, pit_call.target_stops,
                                            pit_call.seed_offset, choice)

\* after a fetch that failed, the heuristic planner planned two stops
C20_Witness ==
    /\ Planned /\ pit.circuit_name \in MappedCircuits
    /\ pit.fetch_outcome = "raises"
    /\ pit_call.planner = "basic" /\ Len(pit.planned_stops) = 2

(***************************************************************************)
(* One TireSet in use: it is fitted, updated tick after tick, and replaced *)
(* by the set a completed pit stop hands back.                             *)
(***************************************************************************)
MaxLapsUsed == 2
\* the track_length handed to update, and the distances of one update: none,
\* a lap, eight laps
UpdateTrackLength == {2}
LapDistances == {0, 2, 16}
UpdateSpeeds == {0, 300}
AmbientTemps == {25}
FittingTemps == {60}
\* the compounds fitted at the start
FittedCompounds == {"SOFT", "WET"}

\* TireSet(compound, age_at_fitting, initial_temperature)
TireFit ==
    /\ tire = NoTire
    /\ \E compound \in FittedCompounds, initial_temperature \in FittingTemps :
         tire' = NewTireSet(compound, 0, initial_temperature)
    /\ UNCHANGED <<race_vars, pit, pit_call, track, calc>>

\* TireSet.update
TireUpdate ==
    /\ tire # NoTire
    /\ tire.laps_used < MaxLapsUsed
    /\ \E lap_distance \in LapDistances, track_length \in UpdateTrackLength,
          speed \in UpdateSpeeds, ambient_temp \in AmbientTemps, is_wet \in BOOLEAN :
         tire' = tire_update(tire, lap_distance, track_length, speed,
                             ambient_temp, is_wet)
    /\ calc' = [op |-> "update"]
    /\ UNCHANGED <<race_vars, pit, pit_call, track>>

\* the strategy of the vehicle when it stops: constructed and asked for a plan
StrategiesAtStop ==
    {[made EXCEPT !.planned_stops =
         plan_strategy(made, "MEDIUM", target_stops, 0, choice).planned_stops] :
       made \in {NewPitStopStrategy(total_laps, loss, "", [kind |-> "nothing"]).pit :
                   total_laps \in PitTotalLaps, loss \in PitLaneTimeLosses},
       target_stops \in PitTargetStops, choice \in {1, 2}}

\* a whole pit stop of the vehicle: execute_pit_entry with the tire set in use,
\* update_pit_stop until it reports the stop complete, and the vehicle goes on
\* with the tire set handed back
TireReplace ==
    /\ tire # NoTire
    /\ \E p \in StrategiesAtStop, at_lap \in PitLaps, duration \in PitStopDurations :
       \E entered \in {execute_pit_entry(p, at_lap, tire, duration).pit} :
       \E waiting \in {update_pit_stop(entered, 1)} :
       \E done \in {update_pit_stop(waiting.pit, duration + p.pit_lane_time_loss)} :
         /\ ~waiting.stop_complete /\ done.stop_complete
         /\ tire' = done.new_tires
         /\ calc' = [op |-> "pit_stop", old_compound |-> tire.compound,
                     new_tires |-> done.new_tires]
    /\ UNCHANGED <<race_vars, pit, pit_call, track>>

NextTire == TireFit \/ TireUpdate \/ TireReplace
SpecTire == Init /\ [][NextTire]_vars

\* C21: over every sequence of updates the wear never decreases and stays within
\* [0, 100]; it goes down only by replacement, to the tire set handed back by a
\* completed pit stop, which has wear 0 and the cold fitting temperature of 60
\* degrees.
C21_WearMonotone ==
    [][(tire # NoTire /\ tire' # NoTire) =>
         /\ 0 <= tire'.wear_percentage /\ tire'.wear_percentage <= 100
         /\ calc'.op = "update" => tire'.wear_percentage >= tire.wear_percentage
         /\ tire'.wear_percentage < tire.wear_percentage =>
               /\ calc'.op = "pit_stop" /\ tire' = calc'.new_tires
               /\ tire'.wear_percentage = 0 /\ tire'.temperature = 60
               /\ tire'.laps_used = 0]_vars

\* worn SOFT tires were replaced in a pit stop by a HARD set
C21_Witness ==
    /\ tire # NoTire /\ calc.op = "pit_stop"
    /\ calc.old_compound = "SOFT" /\ tire.compound = "HARD"
    /\ tire.wear_percentage = 0

\* another vehicle of the race is ahead of vehicle id: it has done more laps, or
\* as many and is further along the track
VehicleAhead(id) ==
    \E o \in DOMAIN agent :
        /\ o # id
        /\ \/ agent[o].lap > agent[id].lap
           \/ agent[o].lap = agent[id].lap /\ agent[o].position > agent[id].position

\* C24: after every tick DRS is never active for a vehicle that has no other
\* vehicle within the detection gap ahead of it, and never active before lap 2.
C24_DrsOnlyBehindAnotherFromLapTwo ==
    \A id \in DOMAIN agent :
        agent[id].drs_active => (agent[id].lap >= 2 /\ VehicleAhead(id))

\* C26: once a vehicle is finished its finished flag never reverts, and no later
\* tick changes its position, speed, lap, lap_times or total_time.
C26_FinishedVehicleFrozen ==
    [][\A id \in DOMAIN agent :
         agent[id].finished =>
           /\ agent'[id].finished
           /\ agent'[id].position = agent[id].position
           /\ agent'[id].speed = agent[id].speed
           /\ agent'[id].lap = agent[id].lap
           /\ agent'[id].lap_times = agent[id].lap_times
           /\ agent'[id].total_time = agent[id].total_time]_vars

\* a vehicle finished the race at least two ticks ago and the race still runs for
\* another vehicle
C26_Witness ==
    /\ running
    /\ \E id \in DOMAIN agent :
         /\ agent[id].finished
         /\ agent[id].lap = NumLaps
         /\ agent[id].total_time + 2 <= current_step
    /\ \E other \in DOMAIN agent : ~agent[other].finished /\ agent[other].position > 0

(***************************************************************************)
(* A race in which the first vehicle of agents_list, a RacingVehicle, has  *)
(* a PitStopStrategy: its caller enters the pit lane and updates the stop  *)
(* once per tick of time_step 1, while MobilitySimulation.step moves the   *)
(* vehicles.                                                               *)
(***************************************************************************)
\* the tire set the vehicle hands in at its stop
VehicleTires == {NewTireSet("SOFT", 0, 60)}

VehiclePitEntry ==
    /\ pit.constructed /\ agents_list # <<>>
    /\ agent[agents_list[1]].kind = "RacingVehicle"
    /\ pit.in_pit_lane \/ Len(pit.completed_stops) < MaxCompletedStops
    /\ \E current_tires \in VehicleTires, duration \in PitStopDurations :
       \E entered \in {execute_pit_entry(pit, agent[agents_list[1]].lap + 1,
                                         current_tires, duration)} :
         /\ pit' = entered.pit
         /\ pit_call' = [op |-> "execute_pit_entry",
                         at_lap |-> agent[agents_list[1]].lap + 1,
                         raised |-> entered.raised]
    /\ UNCHANGED <<race_vars, physics_vars>>

VehiclePitUpdate ==
    /\ pit.constructed /\ pit.in_pit_lane
    /\ \E updated \in {update_pit_stop(pit, 1)} :
         /\ pit' = updated.pit
         /\ pit_call' = [op |-> "update_pit_stop", dt |-> 1,
                         stop_complete |-> updated.stop_complete,
                         new_tires |-> updated.new_tires]
    /\ UNCHANGED <<race_vars, physics_vars>>

NextPitRace == AddAgent \/ Step \/ PitConstruct \/ VehiclePitEntry \/ VehiclePitUpdate
SpecPitRace == Init /\ [][NextPitRace]_vars

\* C25: while the stop of a vehicle is in progress its normal dynamics are
\* bypassed: every tick until the stop completes leaves the vehicle at the reduced
\* pit-lane speed, below the speed it races at.
C25_PitLaneSpeedHeld ==
    [][(pit.constructed /\ pit.in_pit_lane /\ agents_list # <<>>
        /\ current_step' = current_step + 1) =>
          agent'[agents_list[1]].speed < agent[agents_list[1]].max_speed]_vars

(***************************************************************************)
(* A circuit Track that is set up (Track.__init__, add_checkpoint) and     *)
(* then driven on by one RacingVehicle.  Lengths and positions are whole   *)
(* numbers of a distance unit; calc records the last call and whether it   *)
(* raised.                                                                 *)
(***************************************************************************)
MaxCheckpoints == 2
\* the lengths given to Track(length=...), the lengths of the segments given, and
\* the positions given to add_checkpoint
SetupLengths == {0 - 1, 0, 1, 2}
SetupSegments == {<<>>, <<1, 1>>, <<0>>, <<2, 0>>}
CheckpointPositions == (0 - 1)..3
\* the distances a vehicle moves in a tick
StepMovements == {0, 1}

RECURSIVE sum_lengths(_)
sum_lengths(segments) ==
    IF segments = <<>> THEN 0 ELSE Head(segments) + sum_lengths(Tail(segments))

\* list.sort(key=position) after an append: the new position goes behind the
\* positions that are not larger
RECURSIVE sorted_insert(_, _)
sorted_insert(checkpoints, position) ==
    IF checkpoints = <<>> THEN <<position>>
    ELSE IF Head(checkpoints) <= position
         THEN <<Head(checkpoints)>> \o sorted_insert(Tail(checkpoints), position)
         ELSE <<position>> \o checkpoints

\* Track.add_checkpoint: ValueError for a position outside [0, length]
add_checkpoint(t, position) ==
    IF position < 0 \/ position > t.length
    THEN [raised |-> TRUE, track |-> t]
    ELSE [raised |-> FALSE,
          track |-> [t EXCEPT !.checkpoints = sorted_insert(@, position)]]

\* Track.__init__: the length is the sum of the segments when segments are given,
\* and the start/finish checkpoint is added at position 0
NewTrack(length, segments) ==
    add_checkpoint([constructed |-> TRUE,
                    length |-> IF segments # <<>> THEN sum_lengths(segments)
                               ELSE length,
                    segments |-> segments, checkpoints |-> <<>>,
                    vehicle_position |-> 0], 0)

\* what the step of a RacingVehicle does with the track: the geometry lookup of
\* _update_track_geometry (get_coordinates_at_position takes position % length
\* when the track has segments) and the wrap of _move, lines 660-666
vehicle_step_on(t, movement) ==
    IF t.segments # <<>> /\ t.length = 0
    THEN [raised |-> TRUE, track |-> t]
    ELSE LET reached == t.vehicle_position + movement
         IN  IF reached >= t.length
             THEN IF t.length = 0
                  THEN [raised |-> TRUE, track |-> [t EXCEPT !.vehicle_position = reached]]
                  ELSE [raised |-> FALSE,
                        track |-> [t EXCEPT !.vehicle_position = reached % t.length]]
             ELSE [raised |-> FALSE, track |-> [t EXCEPT !.vehicle_position = reached]]

TrackConstruct ==
    /\ track = NoTrack
    /\ \E length \in SetupLengths, segments \in SetupSegments :
       \E made \in {NewTrack(length, segments)} :
         /\ track' = IF made.raised THEN track ELSE made.track
         /\ calc' = [op |-> "Track", length |-> length, segments |-> segments,
                     raised |-> made.raised]
    /\ UNCHANGED <<race_vars, pit, pit_call, tire>>

\* checkpoints are added while the track is set up, before the first tick
TrackAddCheckpoint ==
    /\ track # NoTrack
    /\ calc.op # "step"
    /\ Len(track.checkpoints) <= MaxCheckpoints
    /\ \E position \in CheckpointPositions :
       \E added \in {add_checkpoint(track, position)} :
         /\ track' = added.track
         /\ calc' = [op |-> "add_checkpoint", position |-> position,
                     raised |-> added.raised]
    /\ UNCHANGED <<race_vars, pit, pit_call, tire>>

\* an exception of step() ends the race: no tick follows it
TrackStep ==
    /\ track # NoTrack
    /\ ~(calc.op = "step" /\ calc.raised)
    /\ \E movement \in StepMovements :
       \E stepped \in {vehicle_step_on(track, movement)} :
         /\ track' = stepped.track
         /\ calc' = [op |-> "step", movement |-> movement, raised |-> stepped.raised]
    /\ UNCHANGED <<race_vars, pit, pit_call, tire>>

NextSetup == TrackConstruct \/ TrackAddCheckpoint \/ TrackStep
SpecSetup == Init /\ [][NextSetup]_vars

\* an out-of-range checkpoint is rejected and leaves the track as it was
CheckpointRejectedLeavesTrack ==
    [][(calc'.op = "add_checkpoint"
        /\ (calc'.position < 0 \/ calc'.position > track.length))
         => (calc'.raised /\ track' = track)]_vars

\* C27: configuration errors are rejected when the track is set up: no accepted
\* track has zero length, a zero-length segment or a checkpoint outside
\* [0, length]; and step() on an accepted setup never raises.
C27_NoConfigurationErrorInRace ==
    /\ track # NoTrack =>
         /\ track.length > 0
         /\ \A i \in DOMAIN track.segments : track.segments[i] > 0
         /\ \A i \in DOMAIN track.checkpoints :
              0 <= track.checkpoints[i] /\ track.checkpoints[i] <= track.length
    /\ calc.op = "step" => ~calc.raised

\* step() raised on a track that was accepted at setup
StepRaisedOnAcceptedTrack ==
    track # NoTrack /\ calc.op = "step" /\ calc.raised

(***************************************************************************)
(* The calculations of the racing package called on their own: one call   *)
(* is made and recorded in calc with its arguments and what it returned.   *)
(***************************************************************************)

\* the tire ages sampled, the speeds (km/h) and the tire temperatures (degrees)
SampleAges == <<0, 5, 10, 15, 20>>
SampleSpeeds == {0, 250, 300}
SampleTemperatures == {60, 95, 120}

\* a TireSet of the compound set to an age and a temperature
TireAt(compound, laps_used, temperature) ==
    [NewTireSet(compound, 0, temperature) EXCEPT !.laps_used = laps_used]

\* _calculate_degradation sampled at the ages of SampleAges for one compound,
\* speed, temperature and wetness
CalcDegradation ==
    /\ calc = NoCall
    /\ \E compound \in Compounds, speed \in SampleSpeeds,
          temperature \in SampleTemperatures, is_wet \in BOOLEAN :
         calc' = [op |-> "calculate_degradation", compound |-> compound,
                  speed |-> speed, temperature |-> temperature, is_wet |-> is_wet,
                  samples |-> [i \in DOMAIN SampleAges |->
                     calculate_degradation(
                        TireAt(compound, SampleAges[i], temperature), speed, is_wet)]]
    /\ UNCHANGED <<race_vars, pit, pit_call, tire, track>>

\* C22: for a fixed speed, compound, temperature and wetness the degradation rate
\* sampled at the ages 0, 5, 10, 15, 20 is strictly increasing, and each sample is
\* base_rate * (1 + (laps_used / max_life)^2) * speed factor * temperature factor
\* * compound factor.
C22_DegradationIncreasesWithAge ==
    calc.op = "calculate_degradation" =>
      LET life == max_life(calc.compound)
          fresh == TireAt(calc.compound, 0, calc.temperature)
      IN  /\ \A i \in 1..(Len(SampleAges) - 1) : calc.samples[i] < calc.samples[i + 1]
          /\ \A i \in DOMAIN SampleAges :
               calc.samples[i] =
                 degradation_rate(calc.compound)
                 * (life * life + SampleAges[i] * SampleAges[i])
                 * degradation_factors(fresh, calc.speed, calc.is_wet)

\* the samples of the SOFT compound at 250 km/h on a dry track with cold tires:
\* 2.5 * 1 * (1 + 250/600) * 0.8 = 17/6 percent per lap when new, twice that at
\* the age of 20 laps
C22_Witness ==
    /\ calc.op = "calculate_degradation" /\ calc.compound = "SOFT"
    /\ calc.speed = 250 /\ calc.temperature = 60 /\ ~calc.is_wet
    /\ 6 * calc.samples[1] = 17 * DegradationDenominator("SOFT")
    /\ calc.samples[5] = 2 * calc.samples[1]

\* the gaps to the car ahead, in tenths of a second, and the lap numbers asked about
GapsToCarAhead == 0..20
LapNumbers == 0..4

\* DRSSystem.detection_threshold, in tenths of a second
detection_threshold == 10

\* is_drs_available that closes DRS on lap 0 only
is_drs_available_from_lap_one(gap_to_car_ahead, lap_number) ==
    IF lap_number < 1 THEN FALSE
    ELSE gap_to_car_ahead <= detection_threshold

\* DRSSystem.is_drs_available
is_drs_available(gap_to_car_ahead, lap_number) ==
    IF lap_number < 2 THEN FALSE
    ELSE gap_to_car_ahead <= detection_threshold

CalcDrsAvailable ==
    /\ calc = NoCall
    /\ \E gap_to_car_ahead \in GapsToCarAhead, lap_number \in LapNumbers :
         calc' = [op |-> "is_drs_available", gap_to_car_ahead |-> gap_to_car_ahead,
                  lap_number |-> lap_number,
                  result |-> is_drs_available(gap_to_car_ahead, lap_number)]
    /\ UNCHANGED <<race_vars, pit, pit_call, tire, track>>

\* C23: is_drs_available returns false for every gap when the lap number is
\* below 2, and from lap 2 on it returns true exactly when the gap is at most
\* 1.0 second.
C23_DrsAvailableIff ==
    calc.op = "is_drs_available" =>
      /\ calc.lap_number < 2 => ~calc.result
      /\ calc.lap_number >= 2 => (calc.result <=> calc.gap_to_car_ahead <= 10)

\* a car half a second behind on lap 1 is refused DRS
C23_Witness ==
    /\ calc.op = "is_drs_available" /\ calc.lap_number = 1
    /\ calc.gap_to_car_ahead = 5 /\ ~calc.result

\* the ages, wear levels (percent) and temperatures of the tire sets asked for
\* their performance
PerformanceAges == 0..3
PerformanceWear == {0, 10, 20}

CalcPerformance ==
    /\ calc = NoCall
    /\ \E compound \in Compounds, laps_used \in PerformanceAges,
          wear \in PerformanceWear, temperature \in SampleTemperatures,
          is_wet \in BOOLEAN, is_damaged \in BOOLEAN :
       \E t \in {[TireAt(compound, laps_used, temperature) EXCEPT
                    !.wear_percentage = wear, !.is_damaged = is_damaged]} :
         calc' = [op |-> "get_performance_multiplier", tires |-> t, is_wet |-> is_wet,
                  grip |-> get_grip_level(t, is_wet),
                  result |-> get_performance_multiplier(t, is_wet)]
    /\ UNCHANGED <<race_vars, pit, pit_call, tire, track>>

\* the performance multiplier recorded is above the grip level recorded
ExceedsGrip == calc.result > 10 * calc.grip
\* the grip level recorded is above 0.95
GripAbove95 == 20 * calc.grip > 19 * GripDenominator

\* C28: the performance multiplier equals the grip level except for a fresh tire:
\* it exceeds the grip level only when laps_used = 0 and the grip is above 0.95,
\* and it never exceeds 1.2.
C28_PeakOnlyAtAgeZero ==
    calc.op = "get_performance_multiplier" =>
      /\ ExceedsGrip => (calc.tires.laps_used = 0 /\ GripAbove95)
      /\ ~ExceedsGrip => calc.result = 10 * calc.grip
      /\ calc.result <= 12 * GripDenominator

\* C28 as the code has it: the multiplier exceeds the grip level only when
\* laps_used is at most the warmup_laps of the compound and the grip is above
\* 0.95; otherwise it equals the grip level; it never exceeds 1.2.
C28_PeakOnlyWithinWarmup ==
    calc.op = "get_performance_multiplier" =>
      /\ ExceedsGrip =>
           (calc.tires.laps_used <= warmup_laps(calc.tires.compound) /\ GripAbove95)
      /\ ~ExceedsGrip => calc.result = 10 * calc.grip
      /\ calc.result <= 12 * GripDenominator

\* a SOFT set in its first lap after the out-lap, at full grip, performs at 1.1
C28_Witness ==
    /\ calc.op = "get_performance_multiplier"
    /\ calc.tires.compound = "SOFT" /\ calc.tires.laps_used = 1
    /\ calc.grip = GripDenominator
    /\ calc.result = 11 * GripDenominator

\* TRACK_DATABASE: overtaking_difficulty, drs_lap_time_gain and slipstream_benefit
\* of some circuits, in hundredths (of a second for the gains)
OvertakingTracks ==
    {"monaco", "monza", "melbourne", "montreal", "miami", "spielberg"}
track_characteristics(name) ==
    CASE name = "monaco"    -> [overtaking_difficulty |-> 250, drs_lap_time_gain |-> 30,
                                slipstream_benefit |-> 10]
      [] name = "monza"     -> [overtaking_difficulty |-> 50, drs_lap_time_gain |-> 50,
                                slipstream_benefit |-> 40]
      [] name = "melbourne" -> [overtaking_difficulty |-> 130, drs_lap_time_gain |-> 40,
                                slipstream_benefit |-> 20]
      [] name = "montreal"  -> [overtaking_difficulty |-> 85, drs_lap_time_gain |-> 45,
                                slipstream_benefit |-> 30]
      [] name = "miami"     -> [overtaking_difficulty |-> 100, drs_lap_time_gain |-> 40,
                                slipstream_benefit |-> 25]
      [] name = "spielberg" -> [overtaking_difficulty |-> 75, drs_lap_time_gain |-> 45,
                                slipstream_benefit |-> 30]

\* OvertakingModel.base_threshold, in tenths of a second
base_threshold == 12

\* the pace advantages (from -0.50 to 3.50 seconds in steps of 0.05), gaps and tire
\* advantages asked about, in hundredths of a second
PaceAdvantages == {5 * k - 50 : k \in 0..80}
OvertakingGaps == {40, 50, 60}
TireAdvantages == {0, 10, 25}

\* OvertakingModel.calculate_overtaking_threshold, in thousandths of a second
calculate_overtaking_threshold(tc) == base_threshold * tc.overtaking_difficulty

\* can_overtake that gives the slipstream at a gap of up to 0.5 seconds
can_overtake_slipstream_at_half(tc, pace_advantage, gap_seconds, has_drs, tire_advantage) ==
    LET total_advantage ==
            pace_advantage + tire_advantage
            + (IF has_drs THEN tc.drs_lap_time_gain ELSE 0)
            + (IF gap_seconds <= 50 THEN tc.slipstream_benefit ELSE 0)
    IN  10 * total_advantage >= calculate_overtaking_threshold(tc)

\* OvertakingModel.can_overtake
can_overtake(tc, pace_advantage, gap_seconds, has_drs, tire_advantage) ==
    LET total_advantage ==
            pace_advantage + tire_advantage
            + (IF has_drs THEN tc.drs_lap_time_gain ELSE 0)
            + (IF gap_seconds < 50 THEN tc.slipstream_benefit ELSE 0)
    IN  10 * total_advantage >= calculate_overtaking_threshold(tc)

CalcCanOvertake ==
    /\ calc = NoCall
    /\ \E name \in OvertakingTracks, pace_advantage \in PaceAdvantages,
          gap_seconds \in OvertakingGaps, has_drs \in BOOLEAN,
          tire_advantage \in TireAdvantages :
         calc' = [op |-> "can_overtake", track_name |-> name,
                  pace_advantage |-> pace_advantage, gap_seconds |-> gap_seconds,
                  has_drs |-> has_drs, tire_advantage |-> tire_advantage,
                  result |-> can_overtake(track_characteristics(name), pace_advantage,
                                          gap_seconds, has_drs, tire_advantage)]
    /\ UNCHANGED <<race_vars, pit, pit_call, tire, track>>

\* C29: can_overtake returns true exactly when pace_advantage + tire_advantage
\* + (the DRS gain if has_drs) + (the slipstream benefit if the gap is below 0.5 s)
\* is at least 1.2 * overtaking_difficulty; a larger pace advantage never turns
\* true into false, and a gap of exactly 0.5 s gets no slipstream benefit.
C29_CanOvertakeIff ==
    calc.op = "can_overtake" =>
      LET tc == track_characteristics(calc.track_name)
          drs == IF calc.has_drs THEN tc.drs_lap_time_gain ELSE 0
          slipstream == IF calc.gap_seconds < 50 THEN tc.slipstream_benefit ELSE 0
      IN  /\ calc.result <=>
                10 * (calc.pace_advantage + calc.tire_advantage + drs + slipstream)
                   >= 12 * tc.overtaking_difficulty
          /\ calc.result =>
                \A faster \in PaceAdvantages :
                    faster >= calc.pace_advantage =>
                       can_overtake(tc, faster, calc.gap_seconds, calc.has_drs,
                                    calc.tire_advantage)
          /\ (calc.gap_seconds = 50 /\ calc.result) =>
                10 * (calc.pace_advantage + calc.tire_advantage + drs)
                   >= 12 * tc.overtaking_difficulty

\* at Melbourne a car 1.00 s faster with DRS at a gap of exactly 0.5 s cannot
\* overtake: 1.00 + 0.40 is below the threshold of 1.56, which the 0.20 s of
\* slipstream would have reached
C29_Witness ==
    /\ calc.op = "can_overtake" /\ calc.track_name = "melbourne"
    /\ calc.gap_seconds = 50 /\ calc.has_drs /\ calc.tire_advantage = 0
    /\ calc.pace_advantage = 100
    /\ ~calc.result

\* the fuel a car starts with, in kg, and the time one lap of fuel costs, in
\* thousandths of a second
StartingFuelMass == 110
fuel_effect_per_lap == 37
\* the fuel masses asked about (kg) and the fuel a car burns in a lap (kg)
FuelMasses == {10 * k : k \in 0..(StartingFuelMass \div 10)} \cup {1, StartingFuelMass}
FuelConsumptionRates == {1, 2}

\* a fuel effect that does not follow the fuel mass: the penalty of a full tank
calculate_fuel_effect_of_full_tank(fuel_mass, fuel_consumption_rate) ==
    fuel_effect_per_lap * StartingFuelMass

\* RacingVehicle.calculate_fuel_effect: the laps of fuel on board
\* (fuel_mass / fuel_consumption_rate) times fuel_effect_per_lap, as thousandths
\* of a second over fuel_consumption_rate
calculate_fuel_effect(fuel_mass, fuel_consumption_rate) ==
    fuel_effect_per_lap * fuel_mass

\* calculate_fuel_effect of one car at two fuel masses
CalcFuelEffect ==
    /\ calc = NoCall
    /\ \E rate \in FuelConsumptionRates, heavier \in FuelMasses, lighter \in FuelMasses :
         /\ heavier > lighter
         /\ calc' = [op |-> "calculate_fuel_effect", fuel_consumption_rate |-> rate,
                     heavier |-> heavier, lighter |-> lighter,
                     penalty_heavier |-> calculate_fuel_effect(heavier, rate),
                     penalty_lighter |-> calculate_fuel_effect(lighter, rate)]
    /\ UNCHANGED <<race_vars, pit, pit_call, tire, track>>

\* C30: for any two fuel masses m1 > m2 >= 0 of a vehicle the fuel time penalty
\* at m1 is strictly greater than at m2.
C30_FuelEffectDecreasesWithFuel ==
    calc.op = "calculate_fuel_effect" =>
      /\ calc.heavier > calc.lighter /\ calc.lighter >= 0
      /\ calc.penalty_heavier > calc.penalty_lighter
      /\ calc.penalty_lighter >= 0

\* a car with one kg of fuel left against the same car with an empty tank
C30_Witness ==
    /\ calc.op = "calculate_fuel_effect"
    /\ calc.heavier = 1 /\ calc.lighter = 0
    /\ calc.penalty_heavier > 0 /\ calc.penalty_lighter = 0

NextCalc ==
    \/ CalcDegradation \/ CalcDrsAvailable \/ CalcPerformance \/ CalcCanOvertake
    \/ CalcFuelEffect
SpecCalc == Init /\ [][NextCalc]_vars

(***************************************************************************)
(* MobilitySimulation.run with max_steps = None on a race in which every   *)
(* unfinished vehicle moves forward in every tick: start_race, then step   *)
(* after step while running.  The loop of run() takes its next step        *)
(* whenever it can, hence the weak fairness of RunStep.  The run has no    *)
(* last tick: its tick counter and clock stop counting at MaxSteps, the    *)
(* vehicles go on.                                                         *)
(***************************************************************************)
\* MobilitySimulation.run, line 257
RunStart ==
    /\ ~race_started
    /\ StartRace

\* every vehicle that was not finished covered a positive distance in the tick
MovedForward ==
    \A id \in DOMAIN agent :
        ~agent[id].finished => agent'[id].unwrapped > agent[id].position

\* MobilitySimulation.run, lines 263-264: one pass of the loop
RunStep ==
    /\ race_started
    /\ StepAt(Min(current_step + 1, MaxSteps))
    /\ MovedForward

NextRun == AddAgent \/ RunStart \/ RunStep
SpecRun == Init /\ [][NextRun]_vars /\ WF_vars(RunStart) /\ WF_vars(RunStep)

\* C33: when every vehicle keeps moving forward, every vehicle eventually becomes
\* finished and the race eventually reaches Finished, whatever the kinds of the
\* vehicles.
C33_RunTerminates == <>(AllFinished /\ Finished)

\* the same for a race without a RacingVehicle
RunOfBaseAgentsTerminates ==
    <>((AllFinished /\ Finished)
       \/ \E id \in DOMAIN agent : agent[id].kind = "RacingVehicle")

\* the race_finish events fired so far
RaceFinishEvents == SelectSeq(event_log, LAMBDA e : e.type = "race_finish")

\* C34: while the race is Finished nothing a step could touch changes (step
\* counter, lap, vehicles, finished list, safety car, DNF history, leaderboard,
\* events), and the tick that finishes the race fires race_finish for the first
\* and only time: one race_finish event from then on, none before.
C34_FinishedStepIsNoOp ==
    /\ [][Finished =>
            UNCHANGED <<leaderboard, agents_list, agent, finished_agents,
                        current_step, current_lap, race_finished, safety_car,
                        dnf_history, event_log, dnf_checks, sc_deployed_at>>]_vars
    /\ [][(~race_finished /\ race_finished') => Len(RaceFinishEvents') = 1]_vars
    /\ [](~race_finished => RaceFinishEvents = <<>>)

\* a race of two vehicles has finished before the step bound
C34_Witness ==
    /\ Finished
    /\ Len(agents_list) = 2
    /\ current_step < MaxSteps
    /\ Len(RaceFinishEvents) = 1

\* C35: with live leaderboard updates, after every tick the position of each
\* agent_finish event is the finish_position of that vehicle on the leaderboard,
\* and the i-th vehicle of finished_agents (finishers and DNFs, in the order they
\* finished) has finish_position i, the others none.
C35_FinishEventMatchesLeaderboard ==
    enable_live_updates =>
        /\ \A i \in DOMAIN event_log :
              event_log[i].type = "agent_finish" =>
                  leaderboard.agents[event_log[i].agent].finish_position
                      = event_log[i].position
        /\ \A i \in DOMAIN finished_agents :
              leaderboard.agents[finished_agents[i]].finish_position = i
        /\ \A id \in Range(agents_list) \ Range(finished_agents) :
              leaderboard.agents[id].finish_position = None

\* two vehicles finished in the same tick, the second of agents_list after the first
C35_Witness ==
    /\ enable_live_updates
    /\ Len(agents_list) = 2
    /\ \E i, j \in DOMAIN event_log :
         /\ i < j
         /\ event_log[i].type = "agent_finish" /\ event_log[j].type = "agent_finish"
         /\ event_log[i].tick = event_log[j].tick
         /\ event_log[i].position = 1 /\ event_log[j].position = 2
         /\ leaderboard.agents[event_log[j].agent].finish_position = 2

\* the vehicle has retired (DriverDNF recorded), which marks it finished as well
Retired(id, history) == \E i \in DOMAIN history : history[i].driver_id = id

\* C36: in every step a vehicle's lap count stays or grows by one and is at most
\* NumLaps, and a vehicle becomes finished by completing the race exactly in the
\* step in which its lap count reaches NumLaps.
C36_LapCountSteps ==
    [][\A id \in Range(agents_list) :
          /\ agent'[id].lap >= agent[id].lap
          /\ agent'[id].lap <= agent[id].lap + 1
          /\ agent'[id].lap <= NumLaps
          /\ (agent[id].lap < NumLaps /\ agent'[id].lap = NumLaps)
                <=> (/\ ~agent[id].finished
                     /\ agent'[id].finished
                     /\ ~Retired(id, dnf_history'))]_vars

\* one vehicle has completed the race while another is still on its last lap
C36_Witness ==
    \E id, other \in Range(agents_list) :
        /\ agent[id].finished /\ agent[id].lap = NumLaps
        /\ ~agent[other].finished /\ agent[other].lap = NumLaps - 1
        /\ agent[other].kind = "MobilityAgent"

\* a stop is planned for at_lap
PlannedFor(p, at_lap) == \E j \in 1..Len(p.planned_stops) : p.planned_stops[j][1] = at_lap

\* C37: when update_pit_stop completes a stop that was entered on a lap L with a
\* planned stop, should_pit(L, the tires just handed over, is_damaged = False) is
\* no longer true.
C37_PlannedStopTriggersOnce ==
    [][(/\ pit.constructed
        /\ pit.in_pit_lane
        /\ pit_call'.op = "update_pit_stop"
        /\ pit_call'.stop_complete
        /\ PlannedFor(pit, pit.current_stop_data.lap_number))
       => ~should_pit(pit', pit.current_stop_data.lap_number,
                      pit_call'.new_tires, FALSE)]_vars

(***************************************************************************)
(* One TireSet updated once per tick of a race, each update with the       *)
(* distance covered in that tick; calc keeps the distance covered since    *)
(* the set was fitted.                                                     *)
(***************************************************************************)
\* the track length, and the distances a vehicle covers in one tick: a quarter
\* of the track, half of it, three quarters
TickTrackLength == 4
TickDistances == {1, 2, 3}
MaxRaceDistance == 8

\* the distance covered with the tire set so far
DistanceCovered == IF calc.op = "tick" THEN calc.distance ELSE 0

\* TireSet.update called for one tick
TireTick ==
    /\ tire # NoTire
    /\ DistanceCovered < MaxRaceDistance
    /\ \E lap_distance \in TickDistances, speed \in UpdateSpeeds,
          ambient_temp \in AmbientTemps, is_wet \in BOOLEAN :
         /\ tire' = tire_update(tire, lap_distance, TickTrackLength, speed,
                                ambient_temp, is_wet)
         /\ calc' = [op |-> "tick", distance |-> DistanceCovered + lap_distance]
    /\ UNCHANGED <<race_vars, pit, pit_call, track>>

NextTireTicks == TireFit \/ TireTick
SpecTireTicks == Init /\ [][NextTireTicks]_vars

\* C38: a tire set fitted new and updated tick by tick has as many laps_used as
\* full track lengths were covered with it.
C38_LapsUsedFollowDistance ==
    (tire # NoTire /\ calc.op = "tick") =>
        tire.laps_used = calc.distance \div TickTrackLength

(***************************************************************************)
(* The pit lane machine with a caller that keeps calling update_pit_stop   *)
(* with dt > 0, as a vehicle in the pit lane does in every tick.           *)
(***************************************************************************)
NextPitUpdated == PitConstruct \/ PitPlan \/ PitEntry \/ PitUpdate
SpecPitUpdated == Init /\ [][NextPitUpdated]_vars /\ WF_vars(PitUpdate)

\* a stop is in progress
InStop == pit.constructed /\ pit.in_pit_lane

\* C39: a stop in progress leads to an update_pit_stop call that reports it
\* complete; a call reports completion only for a stop in progress, which it
\* ends, appending one completed stop and handing over the tires that were
\* ready; every other call adds no completed stop and returns no tires, and a
\* call made with no stop in progress changes nothing.
C39_EnteredStopCompletesOnce ==
    /\ InStop ~> (/\ ~InStop
                  /\ pit_call.op = "update_pit_stop"
                  /\ pit_call.stop_complete)
    /\ [][(pit.constructed /\ pit_call'.op = "update_pit_stop") =>
            /\ pit_call'.stop_complete =>
                  /\ pit.in_pit_lane /\ ~pit'.in_pit_lane
                  /\ Len(pit'.completed_stops) = Len(pit.completed_stops) + 1
                  /\ pit_call'.new_tires = pit.new_tires_ready
            /\ ~pit_call'.stop_complete =>
                  /\ pit'.completed_stops = pit.completed_stops
                  /\ pit'.in_pit_lane = pit.in_pit_lane
                  /\ pit_call'.new_tires = NoObject
            /\ ~pit.in_pit_lane => (pit' = pit /\ ~pit_call'.stop_complete)]_vars

\* after a completed stop a further update_pit_stop call returned (False, None)
C39_Witness ==
    /\ pit.constructed /\ ~pit.in_pit_lane
    /\ Len(pit.completed_stops) = 1
    /\ pit_call.op = "update_pit_stop" /\ ~pit_call.stop_complete

\* C40: every plan of plan_strategy with target_stops in 1..3 has its stop laps
\* in strictly increasing order (so no two stops on one lap), for every
\* total_laps and seed_offset and both planners.
C40_StopLapsStrictlyIncreasing ==
    (Planned /\ pit_call.target_stops \in 1..3) =>
        \A j \in 1..(Len(pit.planned_stops) - 1) :
            pit.planned_stops[j][1] < pit.planned_stops[j + 1][1]

\* the same for the 78-lap race only
StopLapsStrictlyIncreasingInScenario ==
    (Planned /\ pit_call.target_stops \in 1..3 /\ pit.total_laps = ScenarioLaps) =>
        \A j \in 1..(Len(pit.planned_stops) - 1) :
            pit.planned_stops[j][1] < pit.planned_stops[j + 1][1]

====
